---------------------------- MODULE Spec2Model ----------------------------
(***************************************************************************)
(* A model of agora_sec_edgar: the filing-type and owner catalogs, the    *)
(* query-URL builder with its date validator, ticker resolution, and the  *)
(* raw HTTP exchange over a TCP socket.                                    *)
(*                                                                         *)
(* Strings are TLA+ strings; a character is a string of length 1, read    *)
(* with SubSeq(s, i, i).  Result values are records: Ok(v) and Err(e, m). *)
(***************************************************************************)
EXTENDS Integers, Sequences, FiniteSets, TLC

VARIABLES
  cat_op,     \* catalog: the last catalog function called ("none" at start)
  cat_val,    \* catalog: the enum variant the call was given ("" when it took a string)
  cat_str,    \* catalog: the string the call was given or produced
  cat_res,    \* catalog: the Result the call returned
  date_in,    \* date validator: the string handed to set_and_validate_dateb
  date_res,   \* date validator: the Result it returned
  bld_pc,     \* builder: "none" before new, "ready" once made or changed, "built" after build
  builder,    \* builder: the EdgarFilingQueryBuilder's fields
  bld_arg,    \* builder: the EdgarParser that was handed to new
  build_res,  \* builder: the Result of the last build
  http_pc,    \* exchange: where get_http_response_body stands
  http_builder,\* exchange: the builder fetch_filing_type was called on
  http_url,   \* exchange: the url argument
  http_env,   \* exchange: the USER_AGENT environment variable, [set, val]
  http_req,   \* exchange: host, port, path and user_agent computed from them
  http_opened,\* exchange: TCP connections opened by this call
  http_sock,  \* exchange: "none", "open" or "closed"
  http_sent,  \* exchange: the requests written to the socket, in order
  http_resp,  \* exchange: the bytes read until the peer closed
  http_events,\* exchange: connect, write, read, release, return as they happen
  http_res,   \* exchange: the Result returned
  tk_dir,     \* resolver: the directory document the SEC endpoint serves
  tk_prev,    \* resolver: the call of create_from_ticker before the last, [called, ticker, res]
  tk_last,    \* resolver: the last call of create_from_ticker
  tk_base,    \* resolver: the last call of base.rs's create_from_ticker
  pad_in,     \* pad_cik: the u32 deserialized, as its two 16-bit halves [hi, lo]
  pad_out,    \* pad_cik: the Result returned
  rec_pc,    \* record: "none" until the record exists, then "ready"
  rec,       \* record: the EdgarParser the fetches are called on
  rec_prev,  \* record: the EdgarParser as it was when the last call began
  rec_call,  \* record: the last call, [op, args, urls, fetched, res]
  co_task,   \* tasks: per task the operation run, [pc, op, served, sock, resp, res]
  co_conns   \* tasks: per TCP connection opened, the responses the peer wrote on it

catVars == <<cat_op, cat_val, cat_str, cat_res>>

dateVars == <<date_in, date_res>>

bldVars == <<bld_pc, builder, bld_arg, build_res>>

httpVars ==
  <<http_pc, http_builder, http_url, http_env, http_req, http_opened, http_sock, http_sent,
    http_resp, http_events, http_res>>

tkVars == <<tk_dir, tk_prev, tk_last, tk_base>>

padVars == <<pad_in, pad_out>>

recVars == <<rec_pc, rec, rec_prev, rec_call>>

coVars == <<co_task, co_conns>>

vars == <<catVars, dateVars, bldVars, httpVars, tkVars, padVars, recVars, coVars>>

\* what each component's operations leave alone
notCat == <<dateVars, bldVars, httpVars, tkVars, padVars, recVars, coVars>>

notDate == <<catVars, bldVars, httpVars, tkVars, padVars, recVars, coVars>>

notBld == <<catVars, dateVars, httpVars, tkVars, padVars, recVars, coVars>>

notHttp == <<catVars, dateVars, bldVars, tkVars, padVars, recVars, coVars>>

notTk == <<catVars, dateVars, bldVars, httpVars, padVars, recVars, coVars>>

notPad == <<catVars, dateVars, bldVars, httpVars, tkVars, recVars, coVars>>

notRec == <<catVars, dateVars, bldVars, httpVars, tkVars, padVars, coVars>>

notCo == <<catVars, dateVars, bldVars, httpVars, tkVars, padVars, recVars>>

---------------------------------------------------------------------------
(* Result<T, E> *)

Ok(v) == [ok |-> TRUE, val |-> v, err |-> "", msg |-> ""]

Err(e, m) == [ok |-> FALSE, val |-> "", err |-> e, msg |-> m]

NoResult == [ok |-> FALSE, val |-> "", err |-> "none", msg |-> ""]

\* Option<serde_json::Value>
None == [some |-> FALSE, val |-> <<>>]

Some(v) == [some |-> TRUE, val |-> v]

---------------------------------------------------------------------------
(* Strings *)

LowerLetters == "abcdefghijklmnopqrstuvwxyz"

UpperLetters == "ABCDEFGHIJKLMNOPQRSTUVWXYZ"

Digits == "0123456789"

CharAt(s, i) == SubSeq(s, i, i)

\* the least element of a non-empty set of numbers
Least(S) == CHOOSE j \in S : \A k \in S : j <= k

\* the least j >= i with s[j] = c, or 0
IndexFrom(c, s, i) ==
  LET hits == {j \in i..Len(s) : CharAt(s, j) = c}
  IN  IF hits = {} THEN 0 ELSE Least(hits)

IndexOf(c, s) == IndexFrom(c, s, 1)

\* char::to_uppercase on the ASCII range
UpperChar(c) ==
  LET i == IndexOf(c, LowerLetters)
  IN  IF i = 0 THEN c ELSE CharAt(UpperLetters, i)

LowerChar(c) ==
  LET i == IndexOf(c, UpperLetters)
  IN  IF i = 0 THEN c ELSE CharAt(LowerLetters, i)

RECURSIVE to_uppercase(_)
\* every character replaced by its upper-case form (the string is halved to
\* keep the evaluation shallow)
to_uppercase(s) ==
  IF Len(s) = 0 THEN ""
  ELSE IF Len(s) = 1 THEN UpperChar(s)
  ELSE to_uppercase(SubSeq(s, 1, Len(s) \div 2))
         \o to_uppercase(SubSeq(s, Len(s) \div 2 + 1, Len(s)))

RECURSIVE to_lowercase(_)
to_lowercase(s) ==
  IF Len(s) = 0 THEN ""
  ELSE IF Len(s) = 1 THEN LowerChar(s)
  ELSE to_lowercase(SubSeq(s, 1, Len(s) \div 2))
         \o to_lowercase(SubSeq(s, Len(s) \div 2 + 1, Len(s)))

RECURSIVE CaseVariants(_)
\* every string that differs from s only in the case of its letters
CaseVariants(s) ==
  IF Len(s) = 0 THEN {""}
  ELSE LET c    == CharAt(s, 1)
           rest == CaseVariants(SubSeq(s, 2, Len(s)))
       IN  {h \o t : h \in {UpperChar(c), LowerChar(c)}, t \in rest}

\* str::starts_with / str::contains
StartsWith(s, p) == Len(p) <= Len(s) /\ SubSeq(s, 1, Len(p)) = p

Contains(s, p) ==
  \E i \in 1..(Len(s) - Len(p) + 1) : SubSeq(s, i, i + Len(p) - 1) = p

\* the value of a phf map's entry for key k: Ok-like record [found, val]
MapGet(map, k) ==
  IF \E i \in 1..Len(map) : map[i][1] = k
  THEN [found |-> TRUE, val |-> map[CHOOSE i \in 1..Len(map) : map[i][1] = k][2]]
  ELSE [found |-> FALSE, val |-> ""]

---------------------------------------------------------------------------
(* builder/owner.rs *)

OwnerOption == {"INCLUDE", "EXCLUDE", "ONLY"}

OWNER_TYPE_MAP ==
  << <<"include", "INCLUDE">>, <<"exclude", "EXCLUDE">>, <<"only", "ONLY">> >>

\* impl FromStr for OwnerOption
OwnerOption_from_str(s) ==
  LET e == MapGet(OWNER_TYPE_MAP, to_uppercase(s))
  IN  IF e.found THEN Ok(e.val) ELSE Err("OwnerTypeNotFound", "")

\* the variant's name as written in the enum
OwnerOption_fmt_name(o) == o

\* impl Display for OwnerOption
OwnerOption_fmt(o) ==
  CASE o = "INCLUDE" -> "include"
    [] o = "EXCLUDE" -> "exclude"
    [] o = "ONLY"    -> "only"

owner_from_str(s) == OwnerOption_from_str(s)

owner_to_string(o) == OwnerOption_fmt(o)

validate_owner_type_string(s) ==
  LET ft == owner_from_str(s)
  IN  IF ft.ok THEN Ok(owner_to_string(ft.val)) ELSE ft

---------------------------------------------------------------------------
(* builder/filing.rs *)

FilingTypeOption ==
  {
     "_1A", "_1E", "_1K", "_1N", "_1SA", "_1U", "_1Z", "_10",
     "_10D", "_10K", "_10M", "_10Q", "_11K", "_12B25", "_13F", "_13H",
     "_144", "_15", "_15F", "_17H", "_18", "_18K", "_19B4", "_19B4E",
     "_19B7", "_2E", "_20F", "_24F2", "_25", "_3", "_4", "_40F",
     "_5", "_6K", "_7M", "_8A", "_8K", "_8M", "_9M", "ABS",
     "ABS15G", "ABSEE", "ADV", "ADVE", "ADVH", "ADVNR", "ADVW", "ATS",
     "ATSN", "ATSR", "BD", "BDN", "BDW", "C", "CA1", "CB",
     "CFPORTAL", "CRS", "CUSTODY", "D", "F1", "F10", "F3", "F4",
     "F6", "F7", "F8", "F80", "FN", "FX", "ID", "MA",
     "MAI", "MANR", "MAW", "MSD", "MSDW", "N14", "N17D1", "N17F1",
     "N17F2", "N18F1", "N1A", "N2", "N23C3", "N27D1", "N3", "N4",
     "N5", "N54A", "N54C", "N6", "N6EI1", "N6F", "N8A", "N8B2",
     "N8B4", "N8F", "NCEN", "NCR", "NCSR", "NMFP", "NPORT", "NPX",
     "NQ", "NRN", "NRSRO", "PF", "PILOT", "R31", "S1", "S11",
     "S20", "S3", "S4", "S6", "S8", "SBSE", "SBSEA", "SBSEBD",
     "SBSEC", "SBSEW", "SCI", "SD", "SDR", "SE", "SF1", "SF3",
     "SIP", "T1", "T2", "T3", "T4", "T6", "TA1", "TA2",
     "TAW", "TCR", "TH", "WBAPP", "X17A19", "X17A5", "X17F1A"
  }

FILING_TYPE_MAP ==
  <<
     <<"1-A", "_1A">>, <<"1-E", "_1E">>, <<"1-K", "_1K">>,
     <<"1-N", "_1N">>, <<"1-SA", "_1SA">>, <<"1-U", "_1U">>,
     <<"1-Z", "_1Z">>, <<"10", "_10">>, <<"10-D", "_10D">>,
     <<"10-K", "_10K">>, <<"10-M", "_10M">>, <<"10-Q", "_10Q">>,
     <<"11-K", "_11K">>, <<"12B-25", "_12B25">>, <<"13F", "_13F">>,
     <<"13H", "_13H">>, <<"144", "_144">>, <<"15", "_15">>,
     <<"15F", "_15F">>, <<"17-H", "_17H">>, <<"18", "_18">>,
     <<"18-K", "_18K">>, <<"19b-4", "_19B4">>, <<"19b-4(E)", "_19B4E">>,
     <<"19b-7", "_19B7">>, <<"2-E", "_2E">>, <<"20-F", "_20F">>,
     <<"24F-2", "_24F2">>, <<"25", "_25">>, <<"3", "_3">>,
     <<"4", "_4">>, <<"40-F", "_40F">>, <<"5", "_5">>,
     <<"6-K", "_6K">>, <<"7-M", "_7M">>, <<"8-A", "_8A">>,
     <<"8-K", "_8K">>, <<"8-M", "_8M">>, <<"9-M", "_9M">>,
     <<"ABS", "ABS">>, <<"ABS-15G", "ABS15G">>, <<"ABS-EE", "ABSEE">>,
     <<"ADV", "ADV">>, <<"ADV-E", "ADVE">>, <<"ADV-H", "ADVH">>,
     <<"ADV-NR", "ADVNR">>, <<"ADV-W", "ADVW">>, <<"ATS", "ATS">>,
     <<"ATS-N", "ATSN">>, <<"ATS-R", "ATSR">>, <<"BD", "BD">>,
     <<"BD-N", "BDN">>, <<"BDW", "BDW">>, <<"C", "C">>,
     <<"CA-1", "CA1">>, <<"CB", "CB">>, <<"CFPORTAL", "CFPORTAL">>,
     <<"CRS", "CRS">>, <<"CUSTODY", "CUSTODY">>, <<"D", "D">>,
     <<"F-1", "F1">>, <<"F-10", "F10">>, <<"F-3", "F3">>,
     <<"F-4", "F4">>, <<"F-6", "F6">>, <<"F-7", "F7">>,
     <<"F-8", "F8">>, <<"F-80", "F80">>, <<"F-N", "FN">>,
     <<"F-X", "FX">>, <<"ID", "ID">>, <<"MA", "MA">>,
     <<"MA-I", "MAI">>, <<"MA-NR", "MANR">>, <<"MA-W", "MAW">>,
     <<"MSD", "MSD">>, <<"MSDW", "MSDW">>, <<"N-14", "N14">>,
     <<"N-17D-1", "N17D1">>, <<"N-17F-1", "N17F1">>, <<"N-17F-2", "N17F2">>,
     <<"N-18F-1", "N18F1">>, <<"N-1A", "N1A">>, <<"N-2", "N2">>,
     <<"N-23C-3", "N23C3">>, <<"N-27D-1", "N27D1">>, <<"N-3", "N3">>,
     <<"N-4", "N4">>, <<"N-5", "N5">>, <<"N-54A", "N54A">>,
     <<"N-54C", "N54C">>, <<"N-6", "N6">>, <<"N-6EI-1", "N6EI1">>,
     <<"N-6F", "N6F">>, <<"N-8A", "N8A">>, <<"N-8B-2", "N8B2">>,
     <<"N-8B-4", "N8B4">>, <<"N-8F", "N8F">>, <<"N-CEN", "NCEN">>,
     <<"N-CR", "NCR">>, <<"N-CSR", "NCSR">>, <<"N-MFP", "NMFP">>,
     <<"N-PORT", "NPORT">>, <<"N-PX", "NPX">>, <<"N-Q", "NQ">>,
     <<"N-RN", "NRN">>, <<"NRSRO", "NRSRO">>, <<"PF", "PF">>,
     <<"PILOT", "PILOT">>, <<"R31", "R31">>, <<"S-1", "S1">>,
     <<"S-11", "S11">>, <<"S-20", "S20">>, <<"S-3", "S3">>,
     <<"S-4", "S4">>, <<"S-6", "S6">>, <<"S-8", "S8">>,
     <<"SBSE", "SBSE">>, <<"SBSE-A", "SBSEA">>, <<"SBSE-BD", "SBSEBD">>,
     <<"SBSE-C", "SBSEC">>, <<"SBSE-W", "SBSEW">>, <<"SCI", "SCI">>,
     <<"SD", "SD">>, <<"SDR", "SDR">>, <<"SE", "SE">>,
     <<"SF-1", "SF1">>, <<"SF-3", "SF3">>, <<"SIP", "SIP">>,
     <<"T-1", "T1">>, <<"T-2", "T2">>, <<"T-3", "T3">>,
     <<"T-4", "T4">>, <<"T-6", "T6">>, <<"TA-1", "TA1">>,
     <<"TA-2", "TA2">>, <<"TA-W", "TAW">>, <<"TCR", "TCR">>,
     <<"TH", "TH">>, <<"WB-APP", "WBAPP">>, <<"X-17A-19", "X17A19">>,
     <<"X-17A-5", "X17A5">>, <<"X-17F-1A", "X17F1A">>
  >>

FilingTypeDisplayArms ==
  <<
     <<"_1A", "1-A">>, <<"_1E", "1-E">>, <<"_1K", "1-K">>,
     <<"_1N", "1-N">>, <<"_1SA", "1-SA">>, <<"_1U", "1-U">>,
     <<"_1Z", "1-Z">>, <<"_10", "10">>, <<"_10D", "10-D">>,
     <<"_10K", "10-K">>, <<"_10M", "10-M">>, <<"_10Q", "10-Q">>,
     <<"_11K", "11-K">>, <<"_12B25", "12B-25">>, <<"_13F", "13F">>,
     <<"_13H", "13H">>, <<"_144", "144">>, <<"_15", "15">>,
     <<"_15F", "15F">>, <<"_17H", "17-H">>, <<"_18", "18">>,
     <<"_18K", "18-K">>, <<"_19B4", "19b-4">>, <<"_19B4E", "19b-4(E)">>,
     <<"_19B7", "19b-7">>, <<"_2E", "2-E">>, <<"_20F", "20-F">>,
     <<"_24F2", "24F-2">>, <<"_25", "25">>, <<"_3", "3">>,
     <<"_4", "4">>, <<"_40F", "40-F">>, <<"_5", "5">>,
     <<"_6K", "6-K">>, <<"_7M", "7-M">>, <<"_8A", "8-A">>,
     <<"_8K", "8-K">>, <<"_8M", "8-M">>, <<"_9M", "9-M">>,
     <<"ABS", "ABS">>, <<"ABS15G", "ABS-15G">>, <<"ABSEE", "ABS-EE">>,
     <<"ADV", "ADV">>, <<"ADVE", "ADV-E">>, <<"ADVH", "ADV-H">>,
     <<"ADVNR", "ADV-NR">>, <<"ADVW", "ADV-W">>, <<"ATS", "ATS">>,
     <<"ATSN", "ATS-N">>, <<"ATSR", "ATS-R">>, <<"BD", "BD">>,
     <<"BDN", "BD-N">>, <<"BDW", "BDW">>, <<"C", "C">>,
     <<"CA1", "CA-1">>, <<"CB", "CB">>, <<"CFPORTAL", "CFPORTAL">>,
     <<"CRS", "CRS">>, <<"CUSTODY", "CUSTODY">>, <<"D", "D">>,
     <<"F1", "F-1">>, <<"F10", "F-10">>, <<"F3", "F-3">>,
     <<"F4", "F-4">>, <<"F6", "F-6">>, <<"F7", "F-7">>,
     <<"F8", "F-8">>, <<"F80", "F-80">>, <<"FN", "F-N">>,
     <<"FX", "F-X">>, <<"ID", "ID">>, <<"MA", "MA">>,
     <<"MAI", "MA-I">>, <<"MANR", "MA-NR">>, <<"MAW", "MA-W">>,
     <<"MSD", "MSD">>, <<"MSDW", "MSDW">>, <<"N14", "N-14">>,
     <<"N17D1", "N-17D-1">>, <<"N17F1", "N-17F-1">>, <<"N17F2", "N-17F-2">>,
     <<"N18F1", "N-18F-1">>, <<"N1A", "N-1A">>, <<"N2", "N-2">>,
     <<"N23C3", "N-23C-3">>, <<"N27D1", "N-27D-1">>, <<"N3", "N-3">>,
     <<"N4", "N-4">>, <<"N5", "N-5">>, <<"N54A", "N-54A">>,
     <<"N54C", "N-54C">>, <<"N6", "N-6">>, <<"N6EI1", "N-6EI-1">>,
     <<"N6F", "N-6F">>, <<"N8A", "N-8A">>, <<"N8B2", "N-8B-2">>,
     <<"N8B4", "N-8B-4">>, <<"N8F", "N-8F">>, <<"NCEN", "N-CEN">>,
     <<"NCR", "N-CR">>, <<"NCSR", "N-CSR">>, <<"NMFP", "N-MFP">>,
     <<"NPORT", "N-PORT">>, <<"NPX", "N-PX">>, <<"NQ", "N-Q">>,
     <<"NRN", "N-RN">>, <<"NRSRO", "NRSRO">>, <<"PF", "PF">>,
     <<"PILOT", "PILOT">>, <<"R31", "R31">>, <<"S1", "S-1">>,
     <<"S11", "S-11">>, <<"S20", "S-20">>, <<"S3", "S-3">>,
     <<"S4", "S-4">>, <<"S6", "S-6">>, <<"S8", "S-8">>,
     <<"SBSE", "SBSE">>, <<"SBSEA", "SBSE-A">>, <<"SBSEBD", "SBSE-BD">>,
     <<"SBSEC", "SBSE-C">>, <<"SBSEW", "SBSE-W">>, <<"SCI", "SCI">>,
     <<"SD", "SD">>, <<"SDR", "SDR">>, <<"SE", "SE">>,
     <<"SF1", "SF-1">>, <<"SF3", "SF-3">>, <<"SIP", "SIP">>,
     <<"T1", "T-1">>, <<"T2", "T-2">>, <<"T3", "T-3">>,
     <<"T4", "T-4">>, <<"T6", "T-6">>, <<"TA1", "TA-1">>,
     <<"TA2", "TA-2">>, <<"TAW", "TA-W">>, <<"TCR", "TCR">>,
     <<"TH", "TH">>, <<"WBAPP", "WB-APP">>, <<"X17A19", "X-17A-19">>,
     <<"X17A5", "X-17A-5">>, <<"X17F1A", "X-17F-1A">>
  >>

\* a parse that falls back to the default variant when the key is missing
FilingTypeOption_from_str_or_default(s) ==
  LET e == MapGet(FILING_TYPE_MAP, to_uppercase(s))
  IN  IF e.found THEN Ok(e.val) ELSE Ok("_1U")

\* impl FromStr for FilingTypeOption
FilingTypeOption_from_str(s) ==
  LET e == MapGet(FILING_TYPE_MAP, to_uppercase(s))
  IN  IF e.found THEN Ok(e.val) ELSE Err("FilingTypeNotFound", "")

\* the variant's name as written in the enum (what {:?} would print)
FilingTypeOption_fmt_debug(v) == v

\* ABS-15G and ABS-EE rendered as their family's form, ABS
FilingTypeOption_fmt_family(v) ==
  IF v \in {"ABS15G", "ABSEE"} THEN "ABS"
  ELSE FilingTypeDisplayArms[CHOOSE i \in 1..Len(FilingTypeDisplayArms) :
                               FilingTypeDisplayArms[i][1] = v][2]

\* impl Display for FilingTypeOption
FilingTypeOption_fmt(v) ==
  FilingTypeDisplayArms[CHOOSE i \in 1..Len(FilingTypeDisplayArms) :
                          FilingTypeDisplayArms[i][1] = v][2]

\* impl Default for FilingTypeOption
FilingTypeOption_default == "_1U"

filing_from_str(s) == FilingTypeOption_from_str(s)

filing_to_string(v) == FilingTypeOption_fmt(v)

validate_filing_type_string(s) ==
  LET ft == filing_from_str(s)
  IN  IF ft.ok THEN Ok(filing_to_string(ft.val)) ELSE ft

---------------------------------------------------------------------------
(* Decimal numbers *)

DigitChar(d) == CharAt(Digits, d + 1)

DigitValue(c) == IndexOf(c, Digits) - 1

\* char::is_digit(10)
is_digit(c) == IndexOf(c, Digits) # 0

AllDigits(s) == \A i \in 1..Len(s) : is_digit(CharAt(s, i))

RECURSIVE ToDecimal(_)
\* Display of an unsigned integer: decimal, no sign, no padding
ToDecimal(n) ==
  IF n < 10 THEN DigitChar(n)
  ELSE ToDecimal(n \div 10) \o DigitChar(n % 10)

RECURSIVE PadLeft(_, _, _)
PadLeft(s, c, width) ==
  IF Len(s) >= width THEN s ELSE PadLeft(c \o s, c, width)

RECURSIVE ParseDecimal(_)
\* the value of a string of decimal digits
ParseDecimal(s) ==
  IF Len(s) = 0 THEN 0
  ELSE 10 * ParseDecimal(SubSeq(s, 1, Len(s) - 1)) + DigitValue(CharAt(s, Len(s)))

---------------------------------------------------------------------------
(* filing_type_builder/filing_type_builder.rs: the date validator *)

\* a leap-year rule without the century exception
is_leap_year_every_fourth(y) == y % 4 = 0

is_leap_year(y) == (y % 4 = 0 /\ y % 100 # 0) \/ y % 400 = 0

days_in_month(y, m) ==
  CASE m \in {1, 3, 5, 7, 8, 10, 12} -> 31
    [] m \in {4, 6, 9, 11} -> 30
    [] m = 2 -> IF is_leap_year(y) THEN 29 ELSE 28
    [] OTHER -> 0

\* chrono::NaiveDate::from_ymd_opt: Some exactly for a date of the proleptic
\* Gregorian calendar
from_ymd_opt(y, m, d) == m \in 1..12 /\ d >= 1 /\ d <= days_in_month(y, m)

\* chrono::NaiveDate::parse_from_str(s, "%Y%m%d") on an unsigned digit string:
\* %Y takes up to four digits, %m and %d up to two each; all three must be
\* present, nothing may be left over, and the fields must name a date.
NaiveDate_parse_from_str(s) ==
  LET yEnd == IF Len(s) < 4 THEN Len(s) ELSE 4
      mEnd == IF Len(s) < yEnd + 2 THEN Len(s) ELSE yEnd + 2
      dEnd == IF Len(s) < mEnd + 2 THEN Len(s) ELSE mEnd + 2
  IN  /\ AllDigits(s)
      /\ yEnd >= 1 /\ mEnd > yEnd /\ dEnd > mEnd
      /\ dEnd = Len(s)
      /\ from_ymd_opt(ParseDecimal(SubSeq(s, 1, yEnd)),
                      ParseDecimal(SubSeq(s, yEnd + 1, mEnd)),
                      ParseDecimal(SubSeq(s, mEnd + 1, dEnd)))

set_and_validate_dateb(dateb) ==
  IF Len(dateb) # 8 \/ ~AllDigits(dateb)
  THEN Err("InvalidDateFormat", dateb)
  ELSE IF NaiveDate_parse_from_str(dateb)
       THEN Ok(dateb)
       ELSE Err("InvalidDateFormat", dateb)

---------------------------------------------------------------------------
(* The date validator as an operation: a caller hands it one string.      *)

MaxMonthInput == 13

MaxDayInput == 32

YearInputs == {"0000", "0001", "0100", "1900", "2000", "2023", "2024", "2100", "9999"}

TwoDigits(n) == PadLeft(ToDecimal(n), "0", 2)

\* every YYYYMMDD with the year of YearInputs, the month 00..MaxMonthInput
\* and the day 00..MaxDayInput; then strings that are not 8 digits
DateInputs ==
  {y \o TwoDigits(m) \o TwoDigits(d) :
     y \in YearInputs, m \in 0..MaxMonthInput, d \in 0..MaxDayInput}
    \cup {"", "invalid", "2024011", "202401011", "2024-01-01", "2024010a",
          "+2024011", "-2024011", " 2024011", "2024011 ", "2024 1 1",
          "abcdefgh", "20240101\r\n", "2024/1/1"}

DateInit ==
  /\ date_in = "unset"
  /\ date_res = NoResult

ValidateDateb ==
  \E d \in DateInputs :
    /\ date_res = NoResult
    /\ date_in' = d
    /\ date_res' = set_and_validate_dateb(d)
    /\ UNCHANGED notDate

DateNext == ValidateDateb

---------------------------------------------------------------------------
(* url::Url, as far as the crate uses it: parse, host_str,                *)
(* port_or_known_default, path, query, as_str.  Modelled for absolute     *)
(* URLs without user info; a host is kept as written (the inputs are      *)
(* lower-case).                                                           *)

\* the least j >= i with s[j] one of the characters of stops, or Len(s) + 1
FindAny(s, stops, i) ==
  LET hits == {j \in i..Len(s) : IndexOf(CharAt(s, j), stops) # 0}
  IN  IF hits = {} THEN Len(s) + 1 ELSE Least(hits)

IsLetter(c) == IndexOf(c, LowerLetters) # 0 \/ IndexOf(c, UpperLetters) # 0

IsSchemeChar(c) == IsLetter(c) \/ is_digit(c) \/ IndexOf(c, "+-.") # 0

SpecialSchemes == {"http", "https", "ws", "wss", "ftp"}

\* the scheme's known default port, 0 when it has none
default_port(scheme) ==
  CASE scheme \in {"http", "ws"} -> 80
    [] scheme \in {"https", "wss"} -> 443
    [] scheme = "ftp" -> 21
    [] OTHER -> 0

\* the characters the query encode set replaces, each with its escape
QueryEscapes ==
  << <<" ", "%20">>, <<"\"", "%22">>, <<"<", "%3C">>, <<">", "%3E">>, <<"'", "%27">> >>

RECURSIVE percent_encode(_)
percent_encode(s) ==
  IF Len(s) = 0 THEN ""
  ELSE IF Len(s) = 1
  THEN LET e == MapGet(QueryEscapes, s) IN IF e.found THEN e.val ELSE s
  ELSE percent_encode(SubSeq(s, 1, Len(s) \div 2))
         \o percent_encode(SubSeq(s, Len(s) \div 2 + 1, Len(s)))

RECURSIVE SkipSlashes(_)
SkipSlashes(s) ==
  IF Len(s) > 0 /\ CharAt(s, 1) \in {"/", "\\"}
  THEN SkipSlashes(SubSeq(s, 2, Len(s)))
  ELSE s

UrlErr(e) ==
  [ok |-> FALSE, err |-> e, scheme |-> "", has_host |-> FALSE, host |-> "",
   port |-> 0, path |-> "", has_query |-> FALSE, query |-> ""]

\* Url::parse
Url_parse(s) ==
  LET colon  == IndexOf(":", s)
      scheme == to_lowercase(SubSeq(s, 1, colon - 1))
      rest   == SubSeq(s, colon + 1, Len(s))
  IN  IF \/ colon <= 1
         \/ ~IsLetter(CharAt(s, 1))
         \/ \E i \in 1..(colon - 1) : ~IsSchemeChar(CharAt(s, i))
      THEN UrlErr("RelativeUrlWithoutBase")
      ELSE IF scheme \notin SpecialSchemes /\ ~StartsWith(rest, "//")
      THEN \* no authority: an opaque path, and no host
           LET qAt == FindAny(rest, "?#", 1)
               fAt == FindAny(rest, "#", 1)
           IN  [ok |-> TRUE, err |-> "", scheme |-> scheme,
                has_host |-> FALSE, host |-> "", port |-> 0,
                path |-> SubSeq(rest, 1, qAt - 1),
                has_query |-> qAt <= Len(rest) /\ CharAt(rest, qAt) = "?",
                query |-> percent_encode(SubSeq(rest, qAt + 1, fAt - 1))]
      ELSE LET \* a special scheme's authority follows any run of slashes
               auth    == IF scheme \in SpecialSchemes
                          THEN SkipSlashes(rest)
                          ELSE SubSeq(rest, 3, Len(rest))
               hostEnd == FindAny(auth, ":/?#", 1)
               host    == SubSeq(auth, 1, hostEnd - 1)
               hasPort == hostEnd <= Len(auth) /\ CharAt(auth, hostEnd) = ":"
               portEnd == IF hasPort THEN FindAny(auth, "/?#", hostEnd) ELSE hostEnd
               portStr == SubSeq(auth, hostEnd + 1, portEnd - 1)
               pathEnd == FindAny(auth, "?#", portEnd)
               rawPath == SubSeq(auth, portEnd, pathEnd - 1)
               hasQ    == pathEnd <= Len(auth) /\ CharAt(auth, pathEnd) = "?"
               qEnd    == FindAny(auth, "#", pathEnd)
               portNum == IF Len(portStr) = 0 THEN 0 ELSE ParseDecimal(portStr)
           IN  IF Len(host) = 0 /\ scheme \in SpecialSchemes
               THEN UrlErr("EmptyHost")
               ELSE IF \E i \in 1..Len(host) : IndexOf(CharAt(host, i), " <>^|%") # 0
               THEN UrlErr("InvalidDomainCharacter")
               ELSE IF ~AllDigits(portStr) \/ portNum > 65535
               THEN UrlErr("InvalidPort")
               ELSE [ok |-> TRUE, err |-> "", scheme |-> scheme,
                     has_host |-> TRUE, host |-> to_lowercase(host),
                     \* a port equal to the scheme's default is dropped
                     port |-> IF portNum = default_port(scheme) THEN 0 ELSE portNum,
                     path |-> IF Len(rawPath) = 0 /\ scheme \in SpecialSchemes
                              THEN "/" ELSE percent_encode(rawPath),
                     has_query |-> hasQ,
                     query |-> IF hasQ
                               THEN percent_encode(SubSeq(auth, pathEnd + 1, qEnd - 1))
                               ELSE ""]

\* Url::as_str / to_string (the crate never builds a URL with a fragment)
Url_as_str(u) ==
  u.scheme \o ":" \o (IF u.has_host THEN "//" \o u.host ELSE "")
    \o (IF u.port # 0 THEN ":" \o ToDecimal(u.port) ELSE "")
    \o u.path \o (IF u.has_query THEN "?" \o u.query ELSE "")

\* Url::port_or_known_default, 0 for None
port_or_known_default(u) == IF u.port # 0 THEN u.port ELSE default_port(u.scheme)

---------------------------------------------------------------------------
(* edgar.rs: pad_cik.  A u32 is kept as its two 16-bit halves, hi * 65536 *)
(* + lo, so that the whole range 0 to 4294967295 is covered.              *)

U32(n) == [hi |-> n \div 65536, lo |-> n % 65536]

RECURSIVE u32_to_decimal(_)
\* Display for u32: the decimal digits, by repeated division by 10
u32_to_decimal(n) ==
  LET t == (n.hi % 10) * 65536 + n.lo
      q == [hi |-> n.hi \div 10, lo |-> t \div 10]
  IN  IF q.hi = 0 /\ q.lo = 0 THEN DigitChar(t % 10)
      ELSE u32_to_decimal(q) \o DigitChar(t % 10)

\* format!("{:10}", cik): padded with spaces
format_10(cik) == PadLeft(u32_to_decimal(cik), " ", 10)

\* format!("{:010}", cik)
format_010(cik) == PadLeft(u32_to_decimal(cik), "0", 10)

\* pad_cik, given a deserializer that holds the u32 cik
pad_cik(cik) == Ok(format_010(cik))

---------------------------------------------------------------------------
(* pad_cik as an operation *)

MaxCikLow == 20

CikInputs ==
  {U32(n) : n \in {0, 1, 9, 10, 99, 100, 123456, 320193, 1045810, 1067983,
                   99999999, 999999999, 1000000000, 2147483647}}
    \cup {[hi |-> h, lo |-> l] :
            h \in {0, 1, 15258, 15259, 32768, 65535},
            l \in (0..MaxCikLow) \cup {51711, 51712, 65535}}

PadInit ==
  /\ pad_in = U32(0)
  /\ pad_out = NoResult

\* pad_cik(deserializer) for a JSON number that is a u32
PadCik ==
  \E cik \in CikInputs :
    /\ pad_out = NoResult
    /\ pad_in' = cik
    /\ pad_out' = pad_cik(cik)
    /\ UNCHANGED notPad

PadNext ==
  \/ PadCik

---------------------------------------------------------------------------
(* edgar.rs: the company record *)

\* the EdgarParser create_from_ticker makes of a directory entry
EdgarParser_of(c) ==
  [cik_str |-> c.cik_str, ticker |-> c.ticker, title |-> c.title,
   leading_zero_cik |-> PadLeft(ToDecimal(c.cik_str), "0", 10),
   submissions |-> None, company_facts |-> None]

---------------------------------------------------------------------------
(* filing_type_builder/filing_type_builder.rs: EdgarFilingQueryBuilder *)

BASE_URL == "https://www.sec.gov/cgi-bin/browse-edgar?action=getcompany&"

\* owner: Default::default()
OwnerOption_default == "INCLUDE"

\* a constructor that leaves count empty, as Default::default() would
EdgarFilingQueryBuilder_new_empty_count(edgar_parser) ==
  [base_url |-> BASE_URL,
   filing_type |-> FilingTypeOption_default,
   dateb |-> "",
   owner |-> OwnerOption_default,
   count |-> "",
   search_text |-> "",
   edgar_parser |-> edgar_parser]

EdgarFilingQueryBuilder_new(edgar_parser) ==
  [base_url |-> BASE_URL,
   filing_type |-> FilingTypeOption_default,
   dateb |-> "",
   owner |-> OwnerOption_default,
   count |-> "10",
   search_text |-> "",
   edgar_parser |-> edgar_parser]

\* the format string with owner written before dateb
build_format_owner_first(b, dateb_string) ==
  b.base_url \o "CIK=" \o ToDecimal(b.edgar_parser.cik_str)
    \o "&type=" \o FilingTypeOption_fmt(b.filing_type)
    \o "&owner=" \o OwnerOption_fmt(b.owner)
    \o "&dateb=" \o dateb_string
    \o "&count=" \o b.count
    \o "&search_text=" \o b.search_text
    \o "&output=atom"

\* the string build formats before it parses it
build_format(b, dateb_string) ==
  b.base_url \o "CIK=" \o ToDecimal(b.edgar_parser.cik_str)
    \o "&type=" \o FilingTypeOption_fmt(b.filing_type)
    \o "&dateb=" \o dateb_string
    \o "&owner=" \o OwnerOption_fmt(b.owner)
    \o "&count=" \o b.count
    \o "&search_text=" \o b.search_text
    \o "&output=atom"

\* a build that formats and parses the URL before it validates the date
EdgarFilingQueryBuilder_build_parse_first(b) ==
  LET query == Url_parse(build_format(b, b.dateb))
      dateb_string == set_and_validate_dateb(b.dateb)
  IN  IF ~query.ok THEN Err("UrlParseError", query.err)
      ELSE IF ~dateb_string.ok THEN dateb_string
      ELSE Ok(Url_as_str(query))

EdgarFilingQueryBuilder_build(b) ==
  LET dateb_string == set_and_validate_dateb(b.dateb)
  IN  IF ~dateb_string.ok THEN dateb_string
      ELSE LET query == Url_parse(build_format(b, dateb_string.val))
           IN  IF query.ok THEN Ok(Url_as_str(query))
               ELSE Err("UrlParseError", query.err)

---------------------------------------------------------------------------
(* The builder as a state machine: new, assignments to its public fields, *)
(* build.                                                                 *)

Companies ==
  {[cik_str |-> 320193, ticker |-> "AAPL", title |-> "Apple Inc."],
   [cik_str |-> 1045810, ticker |-> "NVDA", title |-> "NVIDIA CORP"],
   [cik_str |-> 2147483647, ticker |-> "BIG", title |-> "Ten Digit CIK Co"]}

BuilderFilingTypes == {"_1U", "_10K", "_19B4", "S1"}

BuilderDates == {"", "20231231", "20240229", "20231301", "invalid", "2024011"}

BuilderCounts == {"10", "25", "ten"}

\* base_url as new sets it, and one without a scheme
BuilderBaseUrls == {BASE_URL, "www.sec.gov/cgi-bin/browse-edgar?action=getcompany&"}

BuilderSearchTexts == {"", "apple", "a b", "x&count=5"}

NoBuilder ==
  [base_url |-> "", filing_type |-> "", dateb |-> "", owner |-> "", count |-> "",
   search_text |-> "",
   edgar_parser |-> [cik_str |-> 0, ticker |-> "", title |-> "",
                     leading_zero_cik |-> "", submissions |-> None,
                     company_facts |-> None]]

BldInit ==
  /\ bld_pc = "none"
  /\ builder = NoBuilder
  /\ bld_arg = NoBuilder.edgar_parser
  /\ build_res = NoResult

\* EdgarFilingQueryBuilder::new(parser)
New ==
  \E c \in Companies :
    /\ bld_pc = "none"
    /\ bld_pc' = "ready"
    /\ builder' = EdgarFilingQueryBuilder_new(EdgarParser_of(c))
    /\ bld_arg' = EdgarParser_of(c)
    /\ build_res' = NoResult
    /\ UNCHANGED notBld

\* builder.<field> = value; a URL built earlier is dropped
SetField(field, values) ==
  \E v \in values :
    /\ bld_pc # "none"
    /\ builder[field] # v
    /\ bld_pc' = "ready"
    /\ builder' = [builder EXCEPT ![field] = v]
    /\ build_res' = NoResult
    /\ UNCHANGED bld_arg
    /\ UNCHANGED notBld

SetFilingType == SetField("filing_type", BuilderFilingTypes)

SetOwner == SetField("owner", OwnerOption)

SetDateb == SetField("dateb", BuilderDates)

SetCount == SetField("count", BuilderCounts)

SetSearchText == SetField("search_text", BuilderSearchTexts)

SetBaseUrl == SetField("base_url", BuilderBaseUrls)

\* builder.build()
Build ==
  /\ bld_pc # "none"
  /\ bld_pc' = "built"
  /\ build_res' = EdgarFilingQueryBuilder_build(builder)
  /\ UNCHANGED <<builder, bld_arg>>
  /\ UNCHANGED notBld

BldNext ==
  \/ New
  \/ SetFilingType
  \/ SetOwner
  \/ SetDateb
  \/ SetCount
  \/ SetSearchText
  \/ SetBaseUrl
  \/ Build

---------------------------------------------------------------------------
(* api.rs: get_http_response_body *)

CRLF == "\r\n"

DEFAULT_USER_AGENT == "MyRustApp support@myrustapp.com"

\* std::env::var("USER_AGENT").unwrap_or_else(default)
user_agent_of(env) == IF env.set THEN env.val ELSE DEFAULT_USER_AGENT

\* path() followed by "?" and query() when the URL has a query
request_path(u) == u.path \o (IF u.has_query THEN "?" \o u.query ELSE "")

\* the port connected to: port_or_known_default().unwrap_or(80)
connect_port(u) ==
  IF port_or_known_default(u) # 0 THEN port_or_known_default(u) ELSE 80

\* the request with bare LF line ends
format_request_lf(path, host, user_agent) ==
  "GET " \o path \o " HTTP/1.1\n"
    \o "Host: " \o host \o "\n"
    \o "User-Agent: " \o user_agent \o "\n"
    \o "Connection: close\n"
    \o "Accept: */*\n"
    \o "\n"

format_request(path, host, user_agent) ==
  "GET " \o path \o " HTTP/1.1\r\n"
    \o "Host: " \o host \o "\r\n"
    \o "User-Agent: " \o user_agent \o "\r\n"
    \o "Connection: close\r\n"
    \o "Accept: */*\r\n"
    \o "\r\n"

\* the least j >= i where p occurs in s, or 0
FindStr(s, p, i) ==
  LET hits == {j \in i..(Len(s) - Len(p) + 1) : SubSeq(s, j, j + Len(p) - 1) = p}
  IN  IF hits = {} THEN 0 ELSE Least(hits)

RECURSIVE str_split(_, _)
\* str::split(pattern): the pieces between the pattern's occurrences, found
\* left to right without overlap
str_split(s, p) ==
  LET i == FindStr(s, p, 1)
  IN  IF i = 0 THEN <<s>>
      ELSE <<SubSeq(s, 1, i - 1)>> \o str_split(SubSeq(s, i + Len(p), Len(s)), p)

\* the body taken without the is_empty test
response_body_unchecked(response) ==
  LET parts == str_split(response, "\r\n\r\n")
  IN  IF Len(parts) < 2 THEN Err("Box<dyn Error>", "No response body found")
      ELSE Ok(parts[2])

\* response_str.split("\r\n\r\n").nth(1), then the is_empty test
response_body(response) ==
  LET parts == str_split(response, "\r\n\r\n")
  IN  IF Len(parts) < 2 THEN Err("Box<dyn Error>", "No response body found")
      ELSE IF Len(parts[2]) = 0 THEN Err("Box<dyn Error>", "Empty response body")
      ELSE Ok(parts[2])

---------------------------------------------------------------------------
(* One call of get_http_response_body, step by step.  The peer and the   *)
(* network choose whether connect, write and read succeed and what the   *)
(* response is.                                                           *)

MaxRespTokens == 7

RespTokens == {"a", CRLF}

RECURSIVE TokenStrings(_)
\* every concatenation of at most n tokens
TokenStrings(n) ==
  IF n = 0 THEN {""}
  ELSE LET shorter == TokenStrings(n - 1)
       IN  shorter \cup {s \o k : s \in shorter, k \in RespTokens}

Responses ==
  TokenStrings(MaxRespTokens)
    \cup {"HTTP/1.1 200 OK\r\nContent-Type: text/plain\r\n\r\nhello",
          "HTTP/1.1 404 Not Found\r\nContent-Type: text/plain\r\n\r\nhello",
          "HTTP/1.1 200 OK\r\nContent-Length: 0\r\n\r\n",
          "HTTP/1.1 200 OK\r\n\r\n{\"a\":\r\n\r\n1}",
          "HTTP/1.1 200 OK\n\nhello",
          "HTTP/1.1 200 OK\r\n"}

UrlInputs ==
  {"http://example.com/", "http://example.com", "http://example.com/nonexistentpage",
   "http://httpbin.org/get?name=test&lang=rust",
   "http://thisdomaindoesnotexist123456789.com/",
   "http://localhost:8080/status?",
   "https://www.sec.gov/files/company_tickers.json",
   "data.sec.gov/submissions/CIK0000320193.json",
   "not a url", "mailto:support@myrustapp.com", "http://:8080/", ""}

\* the builders fetch_filing_type is called on
FetchBuilders ==
  {[EdgarFilingQueryBuilder_new(EdgarParser_of(c)) EXCEPT !.dateb = d] :
     c \in {[cik_str |-> 320193, ticker |-> "AAPL", title |-> "Apple Inc."]},
     d \in {"20231231", "invalid", "20231301"}}

UserAgentEnvs ==
  {[set |-> FALSE, val |-> ""], [set |-> TRUE, val |-> "Acme Corp admin@acme.example"]}

NoRequest == [host |-> "", port |-> 0, path |-> "", user_agent |-> ""]

HttpInit ==
  /\ http_pc = "idle"
  /\ http_builder = NoBuilder
  /\ http_url = ""
  /\ http_env = [set |-> FALSE, val |-> ""]
  /\ http_req = NoRequest
  /\ http_opened = 0
  /\ http_sock = "none"
  /\ http_sent = <<>>
  /\ http_resp = ""
  /\ http_events = <<>>
  /\ http_res = NoResult

\* an error after the URL was parsed drops the socket and connects again
ReturnErr_retry(e, m) ==
  /\ http_pc' = IF http_pc = "idle" THEN "done" ELSE "connect"
  /\ http_res' = IF http_pc = "idle" THEN Err(e, m) ELSE http_res
  /\ http_sock' = IF http_sock = "open" THEN "closed" ELSE http_sock
  /\ http_events' = http_events
       \o (IF http_sock = "open" THEN <<"release">> ELSE <<>>)
       \o (IF http_pc = "idle" THEN <<"return">> ELSE <<>>)

\* an error leaves the function at once: a socket that is open is dropped,
\* and the error is returned
ReturnErr(e, m) ==
  /\ http_pc' = "done"
  /\ http_res' = Err(e, m)
  /\ http_sock' = IF http_sock = "open" THEN "closed" ELSE http_sock
  /\ http_events' = http_events
       \o (IF http_sock = "open" THEN <<"release">> ELSE <<>>) \o <<"return">>

\* lines 16-27: parse the URL, take the host, the port, the user agent and the path
get_http_response_body_start(url, env) ==
  LET u == Url_parse(url)
  IN  /\ http_pc = "idle"
      /\ http_url' = url
      /\ http_env' = env
      /\ IF ~u.ok
         THEN /\ ReturnErr("url::ParseError", u.err)
              /\ UNCHANGED http_req
         ELSE IF ~u.has_host
         THEN /\ ReturnErr("Box<dyn Error>", "Invalid host")
              /\ UNCHANGED http_req
         ELSE /\ http_pc' = "connect"
              /\ http_req' = [host |-> u.host, port |-> connect_port(u),
                              path |-> request_path(u),
                              user_agent |-> user_agent_of(env)]
              /\ UNCHANGED <<http_sock, http_events, http_res>>
      /\ UNCHANGED <<http_opened, http_sent, http_resp>>
      /\ UNCHANGED notHttp

\* get_http_response_body(url), called with a URL string
HttpCall ==
  \E url \in UrlInputs, env \in UserAgentEnvs :
    /\ get_http_response_body_start(url, env)
    /\ UNCHANGED http_builder

\* a fetch_filing_type that connects to www.sec.gov before it builds the URL
FetchFilingType_connect_first ==
  \E b \in FetchBuilders, env \in UserAgentEnvs :
    \E url \in {EdgarFilingQueryBuilder_build(b)} :
      /\ http_builder' = b
      /\ IF url.ok
         THEN get_http_response_body_start(url.val, env)
         ELSE /\ http_pc = "idle"
              /\ http_url' = ""
              /\ http_env' = env
              /\ http_pc' = "done"
              /\ http_res' = Err(url.err, url.msg)
              /\ http_opened' = http_opened + 1
              /\ http_sock' = "closed"
              /\ http_events' = <<"connect", "release", "return">>
              /\ UNCHANGED <<http_req, http_sent, http_resp>>
              /\ UNCHANGED notHttp

\* fetch_filing_type: build(), and the URL's string handed to the raw fetch;
\* a failed build is returned before any fetch
FetchFilingType ==
  \E b \in FetchBuilders, env \in UserAgentEnvs :
    \E url \in {EdgarFilingQueryBuilder_build(b)} :
      /\ http_builder' = b
      /\ IF url.ok
         THEN get_http_response_body_start(url.val, env)
         ELSE /\ http_pc = "idle"
              /\ http_url' = ""
              /\ http_env' = env
              /\ ReturnErr(url.err, url.msg)
              /\ UNCHANGED <<http_req, http_opened, http_sent, http_resp>>
              /\ UNCHANGED notHttp

\* line 28: TcpStream::connect(addr).await?
HttpConnect ==
  /\ http_pc = "connect"
  /\ \/ /\ http_pc' = "write"
        /\ http_opened' = http_opened + 1
        /\ http_sock' = "open"
        /\ http_events' = Append(http_events, "connect")
        /\ UNCHANGED http_res
     \/ /\ ReturnErr("io::Error", "connect")
        /\ UNCHANGED http_opened
  /\ UNCHANGED <<http_builder, http_url, http_env, http_req, http_sent, http_resp>>
  /\ UNCHANGED notHttp

\* lines 30-40: stream.write_all(request.as_bytes()).await?
HttpWrite ==
  /\ http_pc = "write"
  /\ \/ /\ http_pc' = "read"
        /\ http_sent' = Append(http_sent,
                          format_request(http_req.path, http_req.host, http_req.user_agent))
        /\ http_events' = Append(http_events, "write")
        /\ UNCHANGED <<http_sock, http_res>>
     \/ /\ ReturnErr("io::Error", "write")
        /\ UNCHANGED http_sent
  /\ UNCHANGED <<http_builder, http_url, http_env, http_req, http_opened, http_resp>>
  /\ UNCHANGED notHttp

\* lines 42-43: stream.read_to_end(&mut response).await?
HttpRead ==
  /\ http_pc = "read"
  /\ \/ \E r \in Responses :
          /\ http_pc' = "body"
          /\ http_resp' = r
          /\ http_events' = Append(http_events, "read")
          /\ UNCHANGED <<http_sock, http_res>>
     \/ /\ ReturnErr("io::Error", "read")
        /\ UNCHANGED http_resp
  /\ UNCHANGED <<http_builder, http_url, http_env, http_req, http_opened, http_sent>>
  /\ UNCHANGED notHttp

\* lines 45-57: take the body; the stream is dropped as the function returns
HttpReturn ==
  /\ http_pc = "body"
  /\ http_pc' = "done"
  /\ http_res' = response_body(http_resp)
  /\ http_sock' = "closed"
  /\ http_events' = http_events \o <<"release", "return">>
  /\ UNCHANGED <<http_builder, http_url, http_env, http_req, http_opened, http_sent, http_resp>>
  /\ UNCHANGED notHttp

HttpNext ==
  \/ HttpCall
  \/ FetchFilingType
  \/ HttpConnect
  \/ HttpWrite
  \/ HttpRead
  \/ HttpReturn

---------------------------------------------------------------------------
(* edgar.rs: create_from_ticker.  A JSON document is its parsed value:    *)
(* t is "num", "str", "obj", "arr", or "bad" for text that is not JSON;   *)
(* an object's m is the sequence of its <<key, value>> members, an        *)
(* array's m the sequence of its items.                                   *)

JNum(n) == [t |-> "num", n |-> n, s |-> "", m |-> <<>>]

JStr(s) == [t |-> "str", n |-> 0, s |-> s, m |-> <<>>]

JObj(members) == [t |-> "obj", n |-> 0, s |-> "", m |-> members]

JArr(items) == [t |-> "arr", n |-> 0, s |-> "", m |-> items]

JBad == [t |-> "bad", n |-> 0, s |-> "", m |-> <<>>]

\* the members of object v named k
Members(v, k) == {i \in 1..Len(v.m) : v.m[i][1] = k}

FieldOf(v, k) == v.m[CHOOSE i \in Members(v, k) : TRUE][2]

\* #[derive(Deserialize)] struct CompanyData { cik_str: u32, ticker, title }:
\* from an object, each field once (other members are skipped), or from an
\* array of the three fields in order
CompanyData_ok(v) ==
  \/ /\ v.t = "obj"
     /\ \A k \in {"cik_str", "ticker", "title"} : Cardinality(Members(v, k)) = 1
     /\ FieldOf(v, "cik_str").t = "num" /\ FieldOf(v, "cik_str").n >= 0
     /\ FieldOf(v, "ticker").t = "str"
     /\ FieldOf(v, "title").t = "str"
  \/ /\ v.t = "arr"
     /\ Len(v.m) = 3
     /\ v.m[1].t = "num" /\ v.m[1].n >= 0
     /\ v.m[2].t = "str"
     /\ v.m[3].t = "str"

CompanyData_of(v) ==
  IF v.t = "obj"
  THEN [cik_str |-> FieldOf(v, "cik_str").n, ticker |-> FieldOf(v, "ticker").s,
        title |-> FieldOf(v, "title").s]
  ELSE [cik_str |-> v.m[1].n, ticker |-> v.m[2].s, title |-> v.m[3].s]

\* serde_json::from_str::<HashMap<String, CompanyData>>: the document must be
\* an object whose every value is a CompanyData; of two members with one key
\* the later stays.  The map is the set of its <<key, CompanyData>> entries.
HashMap_from_str(doc) ==
  IF doc.t # "obj" \/ \E i \in 1..Len(doc.m) : ~CompanyData_ok(doc.m[i][2])
  THEN Err("JSONParseError", "")
  ELSE Ok({<<doc.m[i][1], CompanyData_of(doc.m[i][2])>> :
             i \in {j \in 1..Len(doc.m) :
                      \A k \in (j + 1)..Len(doc.m) : doc.m[k][1] # doc.m[j][1]}})

\* the entries find's predicate accepts: c.ticker == ticker
TickerMatches(map, ticker) == {e \in map : e[2].ticker = ticker}

\* base.rs, serde_json::from_str::<CompanyDataList>: an object with the field
\* tickers once (other members are skipped), or an array of that one field;
\* tickers is an array of CompanyData.  The Vec is the sequence of its items.
CompanyDataList_from_str(doc) ==
  LET list == IF doc.t = "obj" /\ Cardinality(Members(doc, "tickers")) = 1
              THEN FieldOf(doc, "tickers")
              ELSE IF doc.t = "arr" /\ Len(doc.m) = 1 THEN doc.m[1]
              ELSE JBad
  IN  IF list.t # "arr" \/ \E i \in 1..Len(list.m) : ~CompanyData_ok(list.m[i])
      THEN Err("JSONParseError", "")
      ELSE Ok([i \in 1..Len(list.m) |-> CompanyData_of(list.m[i])])

\* base.rs: the EdgarParser made of the first item find's predicate accepts
base_create_from_ticker_result(ticker, body) ==
  LET tickers == CompanyDataList_from_str(body)
      hits    == {i \in 1..Len(tickers.val) : tickers.val[i].ticker = ticker}
  IN  IF ~tickers.ok THEN tickers
      ELSE IF hits = {}
      THEN Err("NotFound", "Ticker " \o ticker \o " not found")
      ELSE Ok([cik_str |-> tickers.val[Least(hits)].cik_str,
               ticker |-> tickers.val[Least(hits)].ticker,
               title |-> tickers.val[Least(hits)].title])

---------------------------------------------------------------------------
(* Ticker resolution as operations: the endpoint publishes a directory,   *)
(* and create_from_ticker is called against it.  The fetch fails or       *)
(* gives the directory; the HashMap is walked in an order of its own, so  *)
(* find may return any entry that matches.                                *)

CompanyJson(c) ==
  JObj(<< <<"cik_str", JNum(c.cik_str)>>, <<"ticker", JStr(c.ticker)>>,
          <<"title", JStr(c.title)>> >>)

Apple == [cik_str |-> 320193, ticker |-> "AAPL", title |-> "Apple Inc."]

Nvidia == [cik_str |-> 1045810, ticker |-> "NVDA", title |-> "NVIDIA CORP"]

Berkshire == [cik_str |-> 1067983, ticker |-> "BRK-B", title |-> "BERKSHIRE HATHAWAY INC"]

Directories ==
  {\* keyed by index, as company_tickers.json is served
   JObj(<< <<"0", CompanyJson(Nvidia)>>, <<"1", CompanyJson(Apple)>>,
           <<"2", CompanyJson(Berkshire)>> >>),
   JObj(<< <<"0", CompanyJson(Apple)>> >>),
   \* the records under a "tickers" array
   JObj(<< <<"tickers", JArr(<<CompanyJson(Nvidia), CompanyJson(Apple),
                               CompanyJson(Berkshire)>>)>> >>),
   JObj(<<>>),
   \* a record without its title
   JObj(<< <<"0", JObj(<< <<"cik_str", JNum(320193)>>, <<"ticker", JStr("AAPL")>> >>)>> >>),
   JBad}

TickerInputs == {"AAPL", "aapl", "Aapl", "NVDA", "nvda", "BRK-B", "brk-b", "ZZZZ", ""}

NoCall == [called |-> FALSE, ticker |-> "", res |-> NoResult]

TkInit ==
  /\ tk_dir = JBad
  /\ tk_prev = NoCall
  /\ tk_last = NoCall
  /\ tk_base = NoCall

\* the endpoint starts to serve a directory
Publish ==
  \E d \in Directories :
    /\ tk_dir = JBad
    /\ d # JBad
    /\ tk_dir' = d
    /\ UNCHANGED <<tk_prev, tk_last, tk_base>>
    /\ UNCHANGED notTk

\* a lookup that falls back to some entry of the directory when none matches
create_from_ticker_results_fallback(ticker, body) ==
  LET tickers == HashMap_from_str(body)
      found   == IF TickerMatches(tickers.val, ticker) = {}
                 THEN tickers.val ELSE TickerMatches(tickers.val, ticker)
  IN  IF ~tickers.ok THEN {tickers}
      ELSE IF found = {}
      THEN {Err("NotFound", "Ticker " \o ticker \o " not found")}
      ELSE {Ok(EdgarParser_of(e[2])) : e \in found}

\* what create_from_ticker(ticker) may return when the fetch gives body
create_from_ticker_results(ticker, body) ==
  LET tickers == HashMap_from_str(body)
  IN  IF ~tickers.ok THEN {tickers}
      ELSE IF TickerMatches(tickers.val, ticker) = {}
      THEN {Err("NotFound", "Ticker " \o ticker \o " not found")}
      ELSE {Ok(EdgarParser_of(e[2])) : e \in TickerMatches(tickers.val, ticker)}

\* EdgarParser::create_from_ticker(ticker)
CreateFromTicker ==
  \E ticker \in TickerInputs :
    /\ tk_prev' = tk_last
    /\ \/ \E r \in create_from_ticker_results(ticker, tk_dir) :
            tk_last' = [called |-> TRUE, ticker |-> ticker, res |-> r]
       \/ tk_last' = [called |-> TRUE, ticker |-> ticker,
                      res |-> Err("HttpError", "")]
    /\ UNCHANGED <<tk_dir, tk_base>>
    /\ UNCHANGED notTk

\* base.rs: EdgarParser::create_from_ticker(&self, ticker)
BaseCreateFromTicker ==
  \E ticker \in TickerInputs :
    /\ \/ tk_base' = [called |-> TRUE, ticker |-> ticker,
                      res |-> base_create_from_ticker_result(ticker, tk_dir)]
       \/ tk_base' = [called |-> TRUE, ticker |-> ticker,
                      res |-> Err("HttpError", "")]
    /\ UNCHANGED <<tk_dir, tk_prev, tk_last>>
    /\ UNCHANGED notTk

TkNext ==
  \/ Publish
  \/ CreateFromTicker
  \/ BaseCreateFromTicker

---------------------------------------------------------------------------
(* edgar.rs: the fetches of a record.  fetch_http_body fails or gives the *)
(* body of the document; a body is written as the JSON it holds, JBad for *)
(* a text that is not JSON.                                               *)

RecordBodies ==
  {JObj(<< <<"cik", JNum(320193)>> >>),
   JObj(<< <<"cik", JNum(320193)>>, <<"facts", JObj(<<>>)>> >>),
   JBad}

\* what crate::api::fetch_http_body may give for a URL
fetch_http_body_results == {Err("HttpError", "")} \cup {Ok(b) : b \in RecordBodies}

\* serde_json::from_str::<serde_json::Value>
serde_json_from_str(body) ==
  IF body.t = "bad" THEN Err("JSONParseError", "") ELSE Ok(body)

LeadingZeroCikNotSet ==
  Err("NotFound", "Leading zero CIK is not set. Call create_from_ticker first.")

\* a fetch_company_facts that asks for the document before it looks at the CIK
fetch_company_facts_request_first(self, fetched) ==
  LET url  == "data.sec.gov/api/xbrl/companyfacts/CIK" \o self.leading_zero_cik \o ".json"
      json == serde_json_from_str(fetched.val)
  IN  IF self.leading_zero_cik = ""
      THEN [self |-> self, urls |-> <<url>>, res |-> LeadingZeroCikNotSet]
      ELSE IF ~fetched.ok
      THEN [self |-> self, urls |-> <<url>>, res |-> Err("HttpError", fetched.msg)]
      ELSE IF ~json.ok
      THEN [self |-> self, urls |-> <<url>>, res |-> json]
      ELSE [self |-> [self EXCEPT !.company_facts = Some(json.val)],
            urls |-> <<url>>, res |-> Ok(json.val)]

\* fetch_company_facts(&mut self) when the fetch gives fetched: the record
\* afterwards, the URLs handed to fetch_http_body, the Result
fetch_company_facts(self, fetched) ==
  LET url  == "data.sec.gov/api/xbrl/companyfacts/CIK" \o self.leading_zero_cik \o ".json"
      json == serde_json_from_str(fetched.val)
  IN  IF self.leading_zero_cik = ""
      THEN [self |-> self, urls |-> <<>>, res |-> LeadingZeroCikNotSet]
      ELSE IF ~fetched.ok
      THEN [self |-> self, urls |-> <<url>>, res |-> Err("HttpError", fetched.msg)]
      ELSE IF ~json.ok
      THEN [self |-> self, urls |-> <<url>>, res |-> json]
      ELSE [self |-> [self EXCEPT !.company_facts = Some(json.val)],
            urls |-> <<url>>, res |-> Ok(json.val)]

\* a fetch_submissions that drops the stored submissions when the body is not JSON
fetch_submissions_clear_on_error(self, fetched) ==
  LET url  == "data.sec.gov/submissions/CIK" \o self.leading_zero_cik \o ".json"
      json == serde_json_from_str(fetched.val)
  IN  IF self.leading_zero_cik = ""
      THEN [self |-> self, urls |-> <<>>, res |-> LeadingZeroCikNotSet]
      ELSE IF ~fetched.ok
      THEN [self |-> self, urls |-> <<url>>, res |-> Err("HttpError", fetched.msg)]
      ELSE IF ~json.ok
      THEN [self |-> [self EXCEPT !.submissions = None], urls |-> <<url>>, res |-> json]
      ELSE [self |-> [self EXCEPT !.submissions = Some(json.val)],
            urls |-> <<url>>, res |-> Ok(json.val)]

\* fetch_submissions(&mut self)
fetch_submissions(self, fetched) ==
  LET url  == "data.sec.gov/submissions/CIK" \o self.leading_zero_cik \o ".json"
      json == serde_json_from_str(fetched.val)
  IN  IF self.leading_zero_cik = ""
      THEN [self |-> self, urls |-> <<>>, res |-> LeadingZeroCikNotSet]
      ELSE IF ~fetched.ok
      THEN [self |-> self, urls |-> <<url>>, res |-> Err("HttpError", fetched.msg)]
      ELSE IF ~json.ok
      THEN [self |-> self, urls |-> <<url>>, res |-> json]
      ELSE [self |-> [self EXCEPT !.submissions = Some(json.val)],
            urls |-> <<url>>, res |-> Ok(json.val)]

\* the path fetch_xbrl_frames formats: year and quarter by Display
fetch_xbrl_frames_path(fact, unit, year, quarter) ==
  "data.sec.gov/api/xbrl/frames/us-gaap/" \o fact \o "/" \o unit \o "/CY"
    \o ToDecimal(year) \o ToDecimal(quarter) \o "I.json"

\* fetch_xbrl_frames(fact, unit, &year, &quarter): the URLs fetched, the Result
fetch_xbrl_frames(fact, unit, year, quarter, fetched) ==
  LET path == fetch_xbrl_frames_path(fact, unit, year, quarter)
      json == serde_json_from_str(fetched.val)
  IN  IF ~fetched.ok
      THEN [urls |-> <<path>>, res |-> Err("HttpError", fetched.msg)]
      ELSE [urls |-> <<path>>, res |-> json]

\* records as create_from_ticker makes them, and one written as a struct
\* literal with no padded CIK
RecordInputs ==
  {EdgarParser_of(Apple), EdgarParser_of(Nvidia),
   [cik_str |-> 320193, ticker |-> "AAPL", title |-> "Apple Inc.",
    leading_zero_cik |-> "", submissions |-> None, company_facts |-> None]}

FrameFacts == {"Assets", "AccountsPayableCurrent"}

FrameUnits == {"USD", "USD-per-shares"}

FrameYears == {2019, 2020}

FrameQuarters == {1, 4}

NoRecord ==
  [cik_str |-> 0, ticker |-> "", title |-> "", leading_zero_cik |-> "",
   submissions |-> None, company_facts |-> None]

NoRecCall ==
  [op |-> "none", args |-> <<>>, urls |-> <<>>, fetched |-> NoResult, res |-> NoResult]

RecInit ==
  /\ rec_pc = "none"
  /\ rec = NoRecord
  /\ rec_prev = NoRecord
  /\ rec_call = NoRecCall

\* the record comes to exist
MakeRecord ==
  \E r \in RecordInputs :
    /\ rec_pc = "none"
    /\ rec_pc' = "ready"
    /\ rec' = r
    /\ rec_prev' = r
    /\ UNCHANGED rec_call
    /\ UNCHANGED notRec

\* record.fetch_company_facts()
FetchCompanyFacts ==
  \E fetched \in fetch_http_body_results :
    \E out \in {fetch_company_facts(rec, fetched)} :
      /\ rec_pc = "ready"
      /\ rec_prev' = rec
      /\ rec' = out.self
      /\ rec_call' = [op |-> "fetch_company_facts", args |-> <<>>, urls |-> out.urls,
                      fetched |-> IF out.urls = <<>> THEN NoResult ELSE fetched,
                      res |-> out.res]
      /\ UNCHANGED rec_pc
      /\ UNCHANGED notRec

\* record.fetch_submissions()
FetchSubmissions ==
  \E fetched \in fetch_http_body_results :
    \E out \in {fetch_submissions(rec, fetched)} :
      /\ rec_pc = "ready"
      /\ rec_prev' = rec
      /\ rec' = out.self
      /\ rec_call' = [op |-> "fetch_submissions", args |-> <<>>, urls |-> out.urls,
                      fetched |-> IF out.urls = <<>> THEN NoResult ELSE fetched,
                      res |-> out.res]
      /\ UNCHANGED rec_pc
      /\ UNCHANGED notRec

\* EdgarParser::fetch_xbrl_frames(fact, unit, &year, &quarter): no record
FetchXbrlFrames ==
  \E fact \in FrameFacts, unit \in FrameUnits, year \in FrameYears,
     quarter \in FrameQuarters, fetched \in fetch_http_body_results :
    \E out \in {fetch_xbrl_frames(fact, unit, year, quarter, fetched)} :
      /\ rec_prev' = rec
      /\ rec_call' = [op |-> "fetch_xbrl_frames", args |-> <<fact, unit, year, quarter>>,
                      urls |-> out.urls, fetched |-> fetched, res |-> out.res]
      /\ UNCHANGED <<rec_pc, rec>>
      /\ UNCHANGED notRec

RecNext ==
  \/ MakeRecord
  \/ FetchCompanyFacts
  \/ FetchSubmissions
  \/ FetchXbrlFrames

---------------------------------------------------------------------------
(* Operations run by concurrent tasks.  Each task calls one operation;    *)
(* the operation connects, writes its request, reads until the peer       *)
(* closes and returns.  The steps of the tasks interleave.  A response    *)
(* is written as the body it carries; the peer answers each request on    *)
(* the connection it arrived on.                                          *)

Tasks == {1, 2}

\* a ticker resolution, a query fetch, a facts fetch on the task's own record
CoOps ==
  [kind : {"create_from_ticker"}, arg : {"AAPL", "ZZZZ"}]
    \cup [kind : {"fetch_filing_type"}, arg : {"20231231", "20240229"}]
    \cup [kind : {"fetch_company_facts"}, arg : {"AAPL", "NVDA"}]

CoBodies ==
  {JObj(<< <<"0", CompanyJson(Nvidia)>>, <<"1", CompanyJson(Apple)>>,
           <<"2", CompanyJson(Berkshire)>> >>),
   JObj(<< <<"cik", JNum(320193)>> >>),
   JBad}

\* a connect that hands out a connection another task holds open
connect_shared(conns) == IF conns = <<>> THEN 1 ELSE Len(conns)

\* TcpStream::connect(addr): a connection of the call's own
connect(conns) == Len(conns) + 1

\* what the operation returns when its exchange gives body
co_results(op, body) ==
  CASE op.kind = "create_from_ticker" -> create_from_ticker_results(op.arg, body)
    [] op.kind = "fetch_filing_type" -> {Ok(body)}
    [] op.kind = "fetch_company_facts" ->
         {fetch_company_facts(
            EdgarParser_of(IF op.arg = "AAPL" THEN Apple ELSE Nvidia), Ok(body)).res}

CoInit ==
  /\ co_task = [t \in Tasks |->
                  [pc |-> "idle", op |-> [kind |-> "none", arg |-> ""],
                   served |-> JBad, sock |-> 0, resp |-> <<>>, res |-> NoResult]]
  /\ co_conns = <<>>

\* task t calls an operation; served is the document the peer holds for it
CoStart(t) ==
  \E op \in CoOps, served \in CoBodies :
    /\ co_task[t].pc = "idle"
    /\ co_task' = [co_task EXCEPT ![t].pc = "called", ![t].op = op,
                                   ![t].served = served]
    /\ UNCHANGED co_conns
    /\ UNCHANGED notCo

\* TcpStream::connect
CoConnect(t) ==
  /\ co_task[t].pc = "called"
  /\ co_task' = [co_task EXCEPT ![t].pc = "connected", ![t].sock = connect(co_conns)]
  /\ co_conns' = IF connect(co_conns) > Len(co_conns)
                 THEN Append(co_conns, <<>>) ELSE co_conns
  /\ UNCHANGED notCo

\* stream.write_all(request): the peer answers on the same connection
CoWrite(t) ==
  /\ co_task[t].pc = "connected"
  /\ co_task' = [co_task EXCEPT ![t].pc = "written"]
  /\ co_conns' = [co_conns EXCEPT ![co_task[t].sock] = Append(@, co_task[t].served)]
  /\ UNCHANGED notCo

\* stream.read_to_end(&mut response)
CoRead(t) ==
  /\ co_task[t].pc = "written"
  /\ co_task' = [co_task EXCEPT ![t].pc = "read", ![t].resp = co_conns[co_task[t].sock]]
  /\ UNCHANGED co_conns
  /\ UNCHANGED notCo

\* the body of the first response read is parsed and the operation returns
CoReturn(t) ==
  /\ co_task[t].pc = "read"
  /\ \E r \in co_results(co_task[t].op, co_task[t].resp[1]) :
       co_task' = [co_task EXCEPT ![t].pc = "done", ![t].res = r]
  /\ UNCHANGED co_conns
  /\ UNCHANGED notCo

CoNext ==
  \E t \in Tasks :
    \/ CoStart(t)
    \/ CoConnect(t)
    \/ CoWrite(t)
    \/ CoRead(t)
    \/ CoReturn(t)

---------------------------------------------------------------------------
(* The catalog functions as operations: a caller hands a string or a      *)
(* variant to one of them and keeps what it returns.                      *)

FilingKeys == {FILING_TYPE_MAP[i][1] : i \in 1..Len(FILING_TYPE_MAP)}

OwnerInputs ==
  UNION {CaseVariants(k) : k \in {"include", "exclude", "only"}}
    \cup {"", "INVALID", "WRONG-OWNER", "includes", "onl"}

FilingInputs ==
  UNION {CaseVariants(k) : k \in FilingKeys}
    \cup {"", "INVALID", "WRONG-FORM", "10K", "10-K "}

CatInit ==
  /\ cat_op = "none"
  /\ cat_val = ""
  /\ cat_str = ""
  /\ cat_res = NoResult

Init ==
  /\ CatInit
  /\ DateInit
  /\ BldInit
  /\ HttpInit
  /\ TkInit
  /\ PadInit
  /\ RecInit
  /\ CoInit

\* OwnerOption::from_str(s) and owner_from_str(s)
OwnerFromStr ==
  \E s \in OwnerInputs :
    /\ cat_op = "none"
    /\ cat_op' = "owner_from_str"
    /\ cat_val' = ""
    /\ cat_str' = s
    /\ cat_res' = owner_from_str(s)
    /\ UNCHANGED notCat

\* FilingTypeOption::from_str(s) and filing_from_str(s)
FilingFromStr ==
  \E s \in FilingInputs :
    /\ cat_op = "none"
    /\ cat_op' = "filing_from_str"
    /\ cat_val' = ""
    /\ cat_str' = s
    /\ cat_res' = filing_from_str(s)
    /\ UNCHANGED notCat

\* v.to_string()
FilingToString ==
  \E v \in FilingTypeOption :
    /\ cat_op = "none"
    /\ cat_op' = "filing_to_string"
    /\ cat_val' = v
    /\ cat_str' = filing_to_string(v)
    /\ cat_res' = NoResult
    /\ UNCHANGED notCat

\* FilingTypeOption::from_str(&v.to_string()): the rendered string parsed back
FilingParseRendered ==
  /\ cat_op = "filing_to_string"
  /\ cat_op' = "filing_parse_rendered"
  /\ cat_res' = FilingTypeOption_from_str(cat_str)
  /\ UNCHANGED <<cat_val, cat_str>>
  /\ UNCHANGED notCat

\* validate_filing_type_string(s)
ValidateFilingTypeString ==
  \E s \in FilingInputs :
    /\ cat_op = "none"
    /\ cat_op' = "validate_filing_type_string"
    /\ cat_val' = ""
    /\ cat_str' = s
    /\ cat_res' = validate_filing_type_string(s)
    /\ UNCHANGED notCat

\* validate_owner_type_string(s)
ValidateOwnerTypeString ==
  \E s \in OwnerInputs :
    /\ cat_op = "none"
    /\ cat_op' = "validate_owner_type_string"
    /\ cat_val' = ""
    /\ cat_str' = s
    /\ cat_res' = validate_owner_type_string(s)
    /\ UNCHANGED notCat

\* o.to_string() and to_string(o)
OwnerToString ==
  \E o \in OwnerOption :
    /\ cat_op = "none"
    /\ cat_op' = "owner_to_string"
    /\ cat_val' = o
    /\ cat_str' = owner_to_string(o)
    /\ cat_res' = NoResult
    /\ UNCHANGED notCat

CatNext ==
  \/ OwnerFromStr
  \/ FilingFromStr
  \/ FilingToString
  \/ FilingParseRendered
  \/ ValidateFilingTypeString
  \/ ValidateOwnerTypeString
  \/ OwnerToString

SpecCatalog == Init /\ [][CatNext]_vars

SpecDate == Init /\ [][DateNext]_vars

SpecBuilder == Init /\ [][BldNext]_vars

SpecHttp == Init /\ [][HttpNext]_vars

SpecTicker == Init /\ [][TkNext]_vars

SpecPadCik == Init /\ [][PadNext]_vars

SpecRecord == Init /\ [][RecNext]_vars

SpecConcurrent == Init /\ [][CoNext]_vars

---------------------------------------------------------------------------
(* C1: every string equal to "include", "exclude" or "only" up to letter  *)
(* case parses, by OwnerOption::from_str and owner_from_str, to Ok of the *)
(* corresponding variant INCLUDE, EXCLUDE, ONLY.                          *)

OwnerVariantOf(s) ==
  CASE to_lowercase(s) = "include" -> "INCLUDE"
    [] to_lowercase(s) = "exclude" -> "EXCLUDE"
    [] to_lowercase(s) = "only"    -> "ONLY"
    [] OTHER -> ""

C1_OwnerParsesAnyCase ==
  (cat_op = "owner_from_str" /\ OwnerVariantOf(cat_str) # "") =>
    (cat_res.ok /\ cat_res.val = OwnerVariantOf(cat_str))

(* C2: for every variant v of FilingTypeOption, parsing the string that   *)
(* Display renders for v gives back Ok(v).                                *)

C2_FilingRoundTrip ==
  cat_op = "filing_parse_rendered" => (cat_res.ok /\ cat_res.val = cat_val)

(* C3: for every key k of FILING_TYPE_MAP and every string s that differs *)
(* from k only in letter case, FilingTypeOption::from_str(s) is Ok of the *)
(* variant k maps to.                                                     *)

C3_FilingParsesAnyCase ==
  cat_op = "filing_from_str" =>
    \A i \in 1..Len(FILING_TYPE_MAP) :
      to_lowercase(cat_str) = to_lowercase(FILING_TYPE_MAP[i][1]) =>
        (cat_res.ok /\ cat_res.val = FILING_TYPE_MAP[i][2])

(* C4: the URL of every successful build carries the company's CIK in    *)
(* its zero-padded 10-digit form; for CIK 320193, filing type 10-K, owner *)
(* include, dateb 20231231, count 25 and search text apple it contains    *)
(* CIK=0000320193&type=10-K&dateb=20231231&owner=include&count=25&search_text=apple. *)

C4_UrlCarriesPaddedCik ==
  (bld_pc = "built" /\ build_res.ok) =>
    /\ Contains(build_res.val, "CIK=" \o builder.edgar_parser.leading_zero_cik \o "&")
    /\ (/\ builder.edgar_parser.cik_str = 320193
        /\ builder.filing_type = "_10K"
        /\ builder.owner = "INCLUDE"
        /\ builder.dateb = "20231231"
        /\ builder.count = "25"
        /\ builder.search_text = "apple")
       => Contains(build_res.val,
            "CIK=0000320193&type=10-K&dateb=20231231&owner=include&count=25&search_text=apple")

(* C5: ticker resolution matches the ticker field without regard to      *)
(* letter case: against one directory, create_from_ticker of two symbols  *)
(* that differ only in letter case returns the identical record, or       *)
(* reports not found for both.                                            *)

\* the directory was fetched and parsed: a record or NotFound came back
Resolved(r) == r.ok \/ r.err = "NotFound"

C5_TickerCaseInsensitive ==
  (/\ tk_prev.called /\ tk_last.called
   /\ to_lowercase(tk_prev.ticker) = to_lowercase(tk_last.ticker)
   /\ Resolved(tk_prev.res) /\ Resolved(tk_last.res))
    => /\ tk_prev.res.ok <=> tk_last.res.ok
       /\ tk_prev.res.ok =>
            /\ tk_prev.res.val.cik_str = tk_last.res.val.cik_str
            /\ tk_prev.res.val.ticker = tk_last.res.val.ticker
            /\ tk_prev.res.val.title = tk_last.res.val.title
            /\ tk_prev.res.val.leading_zero_cik = tk_last.res.val.leading_zero_cik

(* C6: set_and_validate_dateb returns Ok(d), d unchanged, exactly when d  *)
(* is 8 ASCII digits naming a real calendar date as YYYYMMDD (month 1 to  *)
(* 12, a day that month has in that year, 29 February only in leap        *)
(* years); for every other input it returns InvalidDateFormat carrying    *)
(* exactly the input.                                                     *)

\* the month-day pairs of a common year, as "MMDD"
CommonYearDays ==
  {TwoDigits(m) \o TwoDigits(d) : m \in {1, 3, 5, 7, 8, 10, 12}, d \in 1..31}
    \cup {TwoDigits(m) \o TwoDigits(d) : m \in {4, 6, 9, 11}, d \in 1..30}
    \cup {"02" \o TwoDigits(d) : d \in 1..28}

LeapYearString(y) ==
  LET n == ParseDecimal(y)
  IN  IF n % 100 = 0 THEN (n \div 100) % 4 = 0 ELSE n % 4 = 0

IsCalendarDate(s) ==
  /\ Len(s) = 8
  /\ \A i \in 1..8 : CharAt(s, i) \in {"0", "1", "2", "3", "4", "5", "6", "7", "8", "9"}
  /\ \/ SubSeq(s, 5, 8) \in CommonYearDays
     \/ SubSeq(s, 5, 8) = "0229" /\ LeapYearString(SubSeq(s, 1, 4))

C6_DateValidator ==
  date_res # NoResult =>
    IF IsCalendarDate(date_in)
    THEN date_res.ok /\ date_res.val = date_in
    ELSE ~date_res.ok /\ date_res.err = "InvalidDateFormat" /\ date_res.msg = date_in

\* 29 February of a leap year was handed in and came back unchanged
C6_Witness ==
  date_in = "20240229" /\ date_res.ok /\ date_res.val = "20240229"

(* C7: the response is split once, on the first CRLF CRLF: whenever the   *)
(* response holds the delimiter and the text after its first occurrence   *)
(* is not empty, get_http_response_body returns exactly all of that text, *)
(* later CRLF CRLF sequences included.                                    *)

Delimiter == "\r\n\r\n"

HasDelimiter(r) == Contains(r, Delimiter)

\* all of the text after the first occurrence of the delimiter
AfterFirstDelimiter(r) ==
  LET i == CHOOSE j \in 1..Len(r) :
             /\ SubSeq(r, j, j + 3) = Delimiter
             /\ \A k \in 1..(j - 1) : SubSeq(r, k, k + 3) # Delimiter
  IN  SubSeq(r, i + 4, Len(r))

\* the call read a response and has returned
ReturnedAfterRead ==
  http_pc = "done" /\ Len(http_events) = 5 /\ http_events[3] = "read"

C7_BodyIsAllAfterFirstDelimiter ==
  (/\ ReturnedAfterRead
   /\ HasDelimiter(http_resp)
   /\ AfterFirstDelimiter(http_resp) # "")
    => (http_res.ok /\ http_res.val = AfterFirstDelimiter(http_resp))

(* C8: get_http_response_body never returns Ok for a response without a   *)
(* usable body: with no CRLF CRLF in the response it returns the "no body *)
(* found" error, with nothing after the delimiter it returns the "empty   *)
(* body" error, and an Ok never carries an empty string.                  *)

C8_NoOkWithoutBody ==
  ReturnedAfterRead =>
    /\ ~HasDelimiter(http_resp) =>
         (~http_res.ok /\ http_res.msg = "No response body found")
    /\ (HasDelimiter(http_resp) /\ AfterFirstDelimiter(http_resp) = "") =>
         (~http_res.ok /\ http_res.msg = "Empty response body")
    /\ http_res.ok => (http_res.val # "" /\ HasDelimiter(http_resp))
    /\ ~http_res.ok => http_res.err = "Box<dyn Error>"

\* both refusals happen
C8_Witness ==
  /\ ReturnedAfterRead
  /\ http_resp = "HTTP/1.1 200 OK\r\nContent-Length: 0\r\n\r\n"
  /\ http_res.msg = "Empty response body"

(* C9: the request written is, in this order, "GET <path> HTTP/1.1",      *)
(* "Host: <host>", "User-Agent: <user-agent>", "Connection: close",       *)
(* "Accept: <media-type>" and an empty line, each line ended by CRLF and  *)
(* nothing else; <path> is the URL's path, followed by "?<query>" when    *)
(* the URL has a query; <user-agent> is USER_AGENT or the default.        *)

RECURSIVE JoinLines(_)
\* the lines, each followed by CRLF
JoinLines(lines) ==
  IF Len(lines) = 0 THEN ""
  ELSE Head(lines) \o "\r" \o "\n" \o JoinLines(Tail(lines))

\* what the claim says of the request target, for the URLs called with
ExpectedTarget ==
  CASE http_url = "http://example.com/" -> "/"
    [] http_url = "http://example.com" -> "/"
    [] http_url = "http://example.com/nonexistentpage" -> "/nonexistentpage"
    [] http_url = "http://httpbin.org/get?name=test&lang=rust" -> "/get?name=test&lang=rust"
    [] http_url = "http://thisdomaindoesnotexist123456789.com/" -> "/"
    [] http_url = "http://localhost:8080/status?" -> "/status?"
    [] http_url = "https://www.sec.gov/files/company_tickers.json" -> "/files/company_tickers.json"
    [] http_url = BASE_URL \o "CIK=320193&type=1-U&dateb=20231231&owner=include&count=10&search_text=&output=atom" ->
         "/cgi-bin/browse-edgar?action=getcompany&CIK=320193&type=1-U&dateb=20231231&owner=include&count=10&search_text=&output=atom"
    [] OTHER -> "no request"

ExpectedHost ==
  CASE http_url \in {"http://example.com/", "http://example.com",
                     "http://example.com/nonexistentpage"} -> "example.com"
    [] http_url = "http://httpbin.org/get?name=test&lang=rust" -> "httpbin.org"
    [] http_url = "http://thisdomaindoesnotexist123456789.com/" ->
         "thisdomaindoesnotexist123456789.com"
    [] http_url = "http://localhost:8080/status?" -> "localhost"
    [] http_url = "https://www.sec.gov/files/company_tickers.json" -> "www.sec.gov"
    [] http_url = BASE_URL \o "CIK=320193&type=1-U&dateb=20231231&owner=include&count=10&search_text=&output=atom" ->
         "www.sec.gov"
    [] OTHER -> "no request"

C9_RequestFraming ==
  \A i \in 1..Len(http_sent) :
    http_sent[i] =
      JoinLines(<<"GET " \o ExpectedTarget \o " HTTP/1.1",
                  "Host: " \o ExpectedHost,
                  "User-Agent: " \o (IF http_env.set THEN http_env.val
                                     ELSE "MyRustApp support@myrustapp.com"),
                  "Connection: close",
                  "Accept: */*",
                  "">>)

C9_Witness ==
  /\ Len(http_sent) = 1
  /\ ~http_env.set
  /\ http_sent[1] = "GET /get?name=test&lang=rust HTTP/1.1\r\nHost: httpbin.org\r\nUser-Agent: MyRustApp support@myrustapp.com\r\nConnection: close\r\nAccept: */*\r\n\r\n"

(* C10: in one call the events come in the order connect, write, read,    *)
(* release, return; one TCP connection is opened; and after a failure     *)
(* (URL parse, connect, write, read, missing or empty body) the call      *)
(* returns the error at once, opening no other connection and sending     *)
(* nothing again.                                                         *)

FullExchange == <<"connect", "write", "read", "release", "return">>

IsPrefix(s, t) == Len(s) <= Len(t) /\ SubSeq(t, 1, Len(s)) = s

\* the event logs of a call that has returned
CompleteLogs ==
  {<<"return">>,
   <<"connect", "release", "return">>,
   <<"connect", "write", "release", "return">>,
   FullExchange}

C10_OneConnectionInOrder ==
  /\ http_opened <= 1
  /\ Len(http_sent) <= 1
  /\ \E log \in CompleteLogs : IsPrefix(http_events, log)
  /\ http_pc = "done" <=> (Len(http_events) > 0 /\ http_events[Len(http_events)] = "return")
  /\ http_pc = "done" <=> http_res # NoResult
  /\ http_pc = "done" =>
       /\ http_events \in CompleteLogs
       /\ http_sock # "open"
       /\ http_res.ok => http_events = FullExchange
       /\ (http_res.err = "url::ParseError" \/ http_res.msg = "Invalid host") =>
            (http_events = <<"return">> /\ http_opened = 0)
       /\ (http_res.err = "io::Error" /\ http_res.msg = "connect") =>
            (http_events = <<"return">> /\ http_opened = 0)
       /\ (http_res.err = "io::Error" /\ http_res.msg = "write") =>
            (http_events = <<"connect", "release", "return">> /\ http_sent = <<>>)
       /\ (http_res.err = "io::Error" /\ http_res.msg = "read") =>
            http_events = <<"connect", "write", "release", "return">>
       /\ http_res.msg \in {"No response body found", "Empty response body"} =>
            http_events = FullExchange
       /\ Len(http_events) > 1 => (http_opened = 1 /\ http_events[1] = "connect")
       /\ Len(http_events) = 5 => Len(http_sent) = 1

\* a read failure: the call returned after one connection and one request
C10_Witness ==
  /\ http_pc = "done"
  /\ http_res.err = "io::Error" /\ http_res.msg = "read"
  /\ http_opened = 1 /\ Len(http_sent) = 1 /\ http_sock = "closed"

(* C11: the raw HTTP exchange connects to the port written in the target, *)
(* and to port 80 when the target names no port, for every target, the    *)
(* https://www.sec.gov query URL that build produces included.            *)

\* the port written after the host of url, 80 when none is written
TargetPort(url) ==
  LET a    == FindStr(url, "://", 1)
      auth == SubSeq(url, a + 3, Len(url))
      e    == FindAny(auth, "/?#", 1)
      c    == IndexOf(":", SubSeq(auth, 1, e - 1))
  IN  IF c = 0 \/ c + 1 > e - 1 THEN 80 ELSE ParseDecimal(SubSeq(auth, c + 1, e - 1))

C11_ConnectsToGivenPortOr80 ==
  http_opened > 0 => http_req.port = TargetPort(http_url)

(* C12: the raw exchange does not look at the status line: a response     *)
(* with a delimiter and a non-empty body gives Ok, and every response     *)
(* that differs from it only in the status line (200, 404, ...) gives Ok  *)
(* with the same body.                                                    *)

StatusLines ==
  {"HTTP/1.1 200 OK", "HTTP/1.1 404 Not Found", "HTTP/1.1 500 Internal Server Error",
   "HTTP/1.0 301 Moved Permanently", "a"}

\* the response from the end of its first line on
AfterStatusLine(r) == SubSeq(r, FindStr(r, "\r\n", 1), Len(r))

C12_StatusLineNotInspected ==
  (/\ ReturnedAfterRead
   /\ HasDelimiter(http_resp)
   /\ AfterFirstDelimiter(http_resp) # "")
    => /\ http_res.ok
       /\ \A s \in StatusLines :
            LET other == response_body(s \o AfterStatusLine(http_resp))
            IN  other.ok /\ other.val = http_res.val

(* C13: the ticker resolver accepts both directory shapes: a document     *)
(* keyed by index and a document holding the same records under a         *)
(* "tickers" array both parse, and a ticker resolves to its record in     *)
(* either.                                                                *)

\* doc holds well-formed records in one of the two upstream shapes
IsIndexedDirectory(doc) ==
  /\ doc.t = "obj"
  /\ \A i \in 1..Len(doc.m) : doc.m[i][1] # "tickers" /\ CompanyData_ok(doc.m[i][2])

IsTickersDirectory(doc) ==
  /\ doc.t = "obj" /\ Len(doc.m) = 1 /\ doc.m[1][1] = "tickers"
  /\ doc.m[1][2].t = "arr"
  /\ \A i \in 1..Len(doc.m[1][2].m) : CompanyData_ok(doc.m[1][2].m[i])

\* the records of a directory of either shape
RecordsOf(doc) ==
  IF IsTickersDirectory(doc)
  THEN {CompanyData_of(doc.m[1][2].m[i]) : i \in 1..Len(doc.m[1][2].m)}
  ELSE {CompanyData_of(doc.m[i][2]) : i \in 1..Len(doc.m)}

\* call, made against the directory served, parsed it and found the record
ResolvesFromEitherShape(call) ==
  (/\ call.called
   /\ call.res.err # "HttpError"
   /\ IsIndexedDirectory(tk_dir) \/ IsTickersDirectory(tk_dir))
    => /\ call.res.err # "JSONParseError"
       /\ \A c \in RecordsOf(tk_dir) :
            c.ticker = call.ticker =>
              /\ call.res.ok
              /\ call.res.val.cik_str = c.cik_str
              /\ call.res.val.ticker = c.ticker
              /\ call.res.val.title = c.title

C13_AcceptsBothDirectoryShapes ==
  ResolvesFromEitherShape(tk_last) /\ ResolvesFromEitherShape(tk_base)

(* C14: when the directory was fetched and parsed but holds no record     *)
(* matching the requested ticker, create_from_ticker returns the NotFound *)
(* value naming the ticker; it never returns some other record.           *)

\* call got a parsed directory that has no record for its ticker, in any
\* letter case
ParsedWithoutMatch(call) ==
  /\ call.called
  /\ call.res.err \notin {"HttpError", "JSONParseError"}
  /\ \A c \in RecordsOf(tk_dir) : to_lowercase(c.ticker) # to_lowercase(call.ticker)

NotFoundOrRequested(call) ==
  /\ ParsedWithoutMatch(call) =>
       /\ ~call.res.ok
       /\ call.res.err = "NotFound"
       /\ call.res.msg = "Ticker " \o call.ticker \o " not found"
  /\ (call.called /\ call.res.ok) => call.res.val.ticker = call.ticker

C14_NoMatchIsNotFound ==
  NotFoundOrRequested(tk_last) /\ NotFoundOrRequested(tk_base)

\* both resolvers looked ZZZZ up in a directory of three records
C14_Witness ==
  /\ tk_last.called /\ tk_last.ticker = "ZZZZ"
  /\ tk_last.res = Err("NotFound", "Ticker ZZZZ not found")
  /\ tk_prev.called /\ tk_prev.res.ok
  /\ Cardinality(RecordsOf(tk_dir)) = 3

(* C15: for every string s that filing_from_str accepts,                  *)
(* validate_filing_type_string(s) returns the FILING_TYPE_MAP key that s  *)
(* normalises to ("10-k" gives "10-K"); equivalently Display renders the  *)
(* value of every table entry as exactly the entry's key.                 *)

C15_ValidateGivesCanonicalForm ==
  /\ (cat_op = "validate_filing_type_string" /\ filing_from_str(cat_str).ok) =>
       /\ cat_res.ok
       /\ cat_res.val \in FilingKeys
       /\ to_lowercase(cat_res.val) = to_lowercase(cat_str)
  /\ cat_op = "filing_to_string" =>
       \A i \in 1..Len(FILING_TYPE_MAP) :
         FILING_TYPE_MAP[i][2] = cat_val => cat_str = FILING_TYPE_MAP[i][1]

C15_Witness ==
  /\ cat_op = "validate_filing_type_string"
  /\ cat_str = "10-k"
  /\ cat_res = Ok("10-K")

(* C16: the filing-type mapping is a bijection on the known set: every    *)
(* variant of FilingTypeOption is the value of exactly one key of         *)
(* FILING_TYPE_MAP, no two keys map to the same variant, and no two       *)
(* variants render to the same string.                                    *)

\* the table entries whose value is v
EntriesOf(v) == {i \in 1..Len(FILING_TYPE_MAP) : FILING_TYPE_MAP[i][2] = v}

C16_FilingMapIsBijection ==
  /\ cat_op = "filing_to_string" =>
       /\ cat_val \in FilingTypeOption
       /\ Cardinality(EntriesOf(cat_val)) = 1
       /\ \A w \in FilingTypeOption \ {cat_val} : filing_to_string(w) # cat_str
  /\ (cat_op = "filing_from_str" /\ cat_res.ok) =>
       /\ cat_res.val \in FilingTypeOption
       /\ \A k \in FilingKeys :
            MapGet(FILING_TYPE_MAP, k).val = cat_res.val => k = to_uppercase(cat_str)
  /\ Cardinality(FilingKeys) = Len(FILING_TYPE_MAP)
  /\ Cardinality(FilingKeys) = Cardinality(FilingTypeOption)

\* the last variant of the enum was rendered
C16_Witness ==
  /\ cat_op = "filing_to_string"
  /\ cat_val = "X17F1A"
  /\ cat_str = "X-17F-1A"

(* C17: a string outside the closed enumeration never parses to a         *)
(* variant: when its upper-cased form is not a key of the table,          *)
(* FilingTypeOption::from_str returns Err(FilingTypeNotFound),            *)
(* OwnerOption::from_str returns Err(OwnerTypeNotFound), and the two      *)
(* validate functions return the same errors.                             *)

\* the upper-cased form of s is a key of table
IsKeyOf(table, s) == \E i \in 1..Len(table) : table[i][1] = to_uppercase(s)

OwnerToken(o) ==
  CASE o = "INCLUDE" -> "include"
    [] o = "EXCLUDE" -> "exclude"
    [] o = "ONLY"    -> "only"

C19_OwnerHelpersGiveUpperCase ==
  /\ cat_op = "owner_to_string" => cat_str = cat_val
  /\ (cat_op = "validate_owner_type_string" /\ cat_str \in {"INCLUDE", "EXCLUDE", "ONLY"})
       => cat_res = Ok(cat_str)

(* C20: for every CIK n that a u32 holds (0 to 4294967295) the padded CIK *)
(* is a string of exactly 10 characters, all decimal digits, equal to the *)
(* decimal form of n left-padded with 0 (123456 gives "0000123456",       *)
(* 1045810 gives "0001045810"), and its numeric value is n.               *)

RECURSIVE DecimalValue(_)
\* the number a string of decimal digits denotes, as 16-bit halves
DecimalValue(s) ==
  IF Len(s) = 0 THEN [hi |-> 0, lo |-> 0]
  ELSE LET p == DecimalValue(SubSeq(s, 1, Len(s) - 1))
           l == p.lo * 10 + (IndexOf(CharAt(s, Len(s)), "0123456789") - 1)
       IN  [hi |-> p.hi * 10 + l \div 65536, lo |-> l % 65536]

C20_PaddedCikIsTenDigits ==
  pad_out # NoResult =>
    /\ pad_out.ok
    /\ Len(pad_out.val) = 10
    /\ \A i \in 1..Len(pad_out.val) : IndexOf(CharAt(pad_out.val, i), "0123456789") # 0
    /\ DecimalValue(pad_out.val) = pad_in
    /\ pad_in = [hi |-> 1, lo |-> 57920] => pad_out.val = "0000123456"
    /\ pad_in = [hi |-> 15, lo |-> 62770] => pad_out.val = "0001045810"

\* the largest u32 was padded
C20_Witness ==
  /\ pad_in = [hi |-> 65535, lo |-> 65535]
  /\ pad_out = Ok("4294967295")

(* C21: every URL build produces is the fixed base                        *)
(* https://www.sec.gov/cgi-bin/browse-edgar?action=getcompany& followed   *)
(* by the query parameters CIK, type, dateb, owner, count, search_text    *)
(* and the constant output=atom, in exactly this order, each once.        *)

\* the text of s before its first "=", all of s when it has none
NameOf(s) == SubSeq(s, 1, FindAny(s, "=", 1) - 1)

\* the parameters of url's query, in order
QueryParams(url) == str_split(SubSeq(url, FindAny(url, "?", 1) + 1, Len(url)), "&")

\* the key of the table whose value is the variant v
FilingKeyOf(v) ==
  FILING_TYPE_MAP[CHOOSE i \in 1..Len(FILING_TYPE_MAP) : FILING_TYPE_MAP[i][2] = v][1]

C21_FixedBaseAndParameterOrder ==
  (bld_pc = "built" /\ build_res.ok) =>
    LET params == QueryParams(build_res.val)
    IN  /\ StartsWith(build_res.val,
             "https://www.sec.gov/cgi-bin/browse-edgar?action=getcompany&CIK=")
        /\ [i \in 1..Len(params) |-> NameOf(params[i])] =
             <<"action", "CIK", "type", "dateb", "owner", "count", "search_text", "output">>
        /\ params[3] = "type=" \o FilingKeyOf(builder.filing_type)
        /\ params[4] = "dateb=" \o builder.dateb
        /\ params[5] = "owner=" \o OwnerToken(builder.owner)
        /\ params[8] = "output=atom"

\* C21 as it holds: count and search_text are written into the URL as they
\* are, so the parameters are these eight, in order and each once, when
\* neither holds a "&" or a "#" and base_url is as new set it
FreeFormFieldsHaveNoSeparator ==
  /\ builder.base_url = "https://www.sec.gov/cgi-bin/browse-edgar?action=getcompany&"
  /\ FindAny(builder.count, "&#", 1) > Len(builder.count)
  /\ FindAny(builder.search_text, "&#", 1) > Len(builder.search_text)

C21_ParameterOrderWithoutSeparators ==
  (bld_pc = "built" /\ build_res.ok /\ FreeFormFieldsHaveNoSeparator) =>
    LET params == QueryParams(build_res.val)
    IN  /\ StartsWith(build_res.val,
             "https://www.sec.gov/cgi-bin/browse-edgar?action=getcompany&CIK=")
        /\ [i \in 1..Len(params) |-> NameOf(params[i])] =
             <<"action", "CIK", "type", "dateb", "owner", "count", "search_text", "output">>
        /\ params[3] = "type=" \o FilingKeyOf(builder.filing_type)
        /\ params[4] = "dateb=" \o builder.dateb
        /\ params[5] = "owner=" \o OwnerToken(builder.owner)
        /\ params[6] = "count=" \o builder.count
        /\ StartsWith(params[7], "search_text=")
        /\ params[8] = "output=atom"

C21_Witness ==
  /\ bld_pc = "built"
  /\ build_res.ok
  /\ builder.filing_type = "_10K" /\ builder.count = "25" /\ builder.search_text = "a b"
  /\ QueryParams(build_res.val)[7] = "search_text=a%20b"

(* C22: a builder that new(parser) has just made has base_url equal to    *)
(* the fixed EDGAR base path, count "10", dateb "", search_text "",       *)
(* filing_type the default variant 1-U, owner the default variant         *)
(* INCLUDE, and edgar_parser equal to the record passed in.               *)

IsFreshBuilder(b, parser) ==
  /\ b.base_url = "https://www.sec.gov/cgi-bin/browse-edgar?action=getcompany&"
  /\ b.count = "10"
  /\ b.dateb = ""
  /\ b.search_text = ""
  /\ b.filing_type = "_1U" /\ filing_to_string(b.filing_type) = "1-U"
  /\ b.owner = "INCLUDE"
  /\ b.edgar_parser = parser
  /\ DOMAIN b = {"base_url", "count", "dateb", "search_text", "filing_type", "owner",
                 "edgar_parser"}

C22_NewBuilderDefaults ==
  [][(bld_pc = "none" /\ bld_pc' # "none") => IsFreshBuilder(builder', bld_arg')]_vars

\* new was called with the record of CIK 320193
C22_Witness ==
  /\ bld_pc = "ready"
  /\ bld_arg.cik_str = 320193 /\ bld_arg.ticker = "AAPL"
  /\ IsFreshBuilder(builder, bld_arg)

(* C23: fetch_filing_type builds the URL before any network activity:     *)
(* whenever build fails (dateb "invalid", or month 13) it returns that    *)
(* same InvalidDateFormat error, no TCP connection is opened and no       *)
(* request is written.                                                    *)

C23_BuildFailsBeforeNetwork ==
  (/\ http_pc # "idle"
   /\ http_builder # NoBuilder
   /\ ~EdgarFilingQueryBuilder_build(http_builder).ok)
    => /\ http_pc = "done"
       /\ http_res = Err("InvalidDateFormat", http_builder.dateb)
       /\ http_res = EdgarFilingQueryBuilder_build(http_builder)
       /\ http_opened = 0
       /\ http_sock = "none"
       /\ http_sent = <<>>
       /\ http_events = <<"return">>

\* fetch_filing_type was called on a builder whose dateb has month 13
C23_Witness ==
  /\ http_pc = "done"
  /\ http_builder.dateb = "20231301"
  /\ http_res = Err("InvalidDateFormat", "20231301")
  /\ http_opened = 0 /\ http_sent = <<>>

(* C25: fetch_xbrl_frames(fact, unit, year, quarter) requests the         *)
(* instantaneous frame of the documented period format CY####Q#I: the     *)
(* document data.sec.gov/api/xbrl/frames/us-gaap/<fact>/<unit>/           *)
(* CY<year>Q<quarter>I.json.                                              *)

C25_FramesPeriodHasQuarterMark ==
  rec_call.op = "fetch_xbrl_frames"
    => rec_call.urls =
         <<"data.sec.gov/api/xbrl/frames/us-gaap/" \o rec_call.args[1] \o "/"
             \o rec_call.args[2] \o "/CY" \o ToDecimal(rec_call.args[3]) \o "Q"
             \o ToDecimal(rec_call.args[4]) \o "I.json">>

(* C26: after any sequence of fetch_company_facts and fetch_submissions   *)
(* calls, cik_str, ticker, title and leading_zero_cik are unchanged; a    *)
(* failed call leaves submissions and company_facts as they were;         *)
(* fetch_submissions never changes company_facts and fetch_company_facts  *)
(* never changes submissions.                                             *)

Identity(r) == <<r.cik_str, r.ticker, r.title, r.leading_zero_cik>>

C26_FetchFrame ==
  [][rec_pc = "ready"
       => /\ Identity(rec') = Identity(rec)
          /\ ~rec_call'.res.ok => rec' = rec
          /\ rec_call'.op = "fetch_submissions" => rec'.company_facts = rec.company_facts
          /\ rec_call'.op = "fetch_company_facts" => rec'.submissions = rec.submissions
          /\ rec_call'.op = "fetch_xbrl_frames" => rec' = rec]_vars

\* a fetch_submissions that failed on its body after a fetch_company_facts
\* had stored a document
C26_Witness ==
  /\ rec_call.op = "fetch_submissions"
  /\ rec_call.res.err = "JSONParseError"
  /\ rec_prev.company_facts.some
  /\ rec_prev.submissions.some
  /\ rec = rec_prev

(* C27: with a non-empty leading_zero_cik a successful fetch_company_facts *)
(* requests data.sec.gov/api/xbrl/companyfacts/CIK<leading_zero_cik>.json  *)
(* and company_facts then holds Some of the value returned (likewise       *)
(* fetch_submissions, data.sec.gov/submissions/CIK<leading_zero_cik>.json  *)
(* and submissions); with an empty leading_zero_cik both return NotFound   *)
(* without any request.                                                    *)

C27_FetchStoresWhatItReturns ==
  /\ (/\ rec_call.op = "fetch_company_facts"
      /\ rec_prev.leading_zero_cik # ""
      /\ rec_call.res.ok)
       => /\ rec_call.urls = <<"data.sec.gov/api/xbrl/companyfacts/CIK"
                                 \o rec_prev.leading_zero_cik \o ".json">>
          /\ rec.company_facts.some
          /\ rec.company_facts.val = rec_call.res.val
  /\ (/\ rec_call.op = "fetch_submissions"
      /\ rec_prev.leading_zero_cik # ""
      /\ rec_call.res.ok)
       => /\ rec_call.urls = <<"data.sec.gov/submissions/CIK"
                                 \o rec_prev.leading_zero_cik \o ".json">>
          /\ rec.submissions.some
          /\ rec.submissions.val = rec_call.res.val
  /\ (/\ rec_call.op \in {"fetch_company_facts", "fetch_submissions"}
      /\ rec_prev.leading_zero_cik = "")
       => /\ rec_call.res.err = "NotFound"
          /\ rec_call.urls = <<>>

C27_Witness ==
  /\ rec_call.op = "fetch_company_facts"
  /\ rec_call.res.ok
  /\ rec_call.urls = <<"data.sec.gov/api/xbrl/companyfacts/CIK0000320193.json">>
  /\ rec.company_facts = Some(JObj(<< <<"cik", JNum(320193)>> >>))

(* C28: build validates the date before assembling or parsing the URL and *)
(* does not modify the builder: with dateb "" as new leaves it, or any    *)
(* invalid dateb, build fails with InvalidDateFormat carrying dateb,      *)
(* whatever the other fields hold and even when the URL would be          *)
(* malformed; build leaves every field unchanged and a repeated build     *)
(* returns the same result.                                               *)

C28_BuildValidatesDateFirst ==
  [][(bld_pc # "none" /\ bld_pc' = "built")
       => /\ builder' = builder
          /\ ~IsCalendarDate(builder.dateb)
               => build_res' = Err("InvalidDateFormat", builder.dateb)
          /\ bld_pc = "built" => build_res' = build_res]_vars

\* build was called with an invalid dateb on a builder whose URL has no scheme
C28_Witness ==
  /\ bld_pc = "built"
  /\ builder.dateb = "20231301"
  /\ builder.count = "ten"
  /\ ~Url_parse(build_format(builder, builder.dateb)).ok
  /\ build_res = Err("InvalidDateFormat", "20231301")

(* C24: operations share no connection and no mutable state: when two     *)
(* operations run concurrently in any interleaving, each uses its own TCP *)
(* connection and its own freshly parsed document, and each returns the   *)
(* result it would return when run alone against the same responses.      *)

C24_TasksAreIndependent ==
  /\ \A t \in Tasks, u \in Tasks :
       (t # u /\ co_task[t].sock # 0) => co_task[t].sock # co_task[u].sock
  /\ \A t \in Tasks :
       co_task[t].pc \in {"read", "done"} => co_task[t].resp = <<co_task[t].served>>
  /\ \A t \in Tasks :
       co_task[t].pc = "done"
         => co_task[t].res \in co_results(co_task[t].op, co_task[t].served)

\* a ticker resolution and a facts fetch have both returned, each from the
\* document served to it, after their steps interleaved on two connections
C24_Witness ==
  /\ co_task[1].pc = "done" /\ co_task[2].pc = "done"
  /\ co_task[1].op = [kind |-> "create_from_ticker", arg |-> "AAPL"]
  /\ co_task[2].op = [kind |-> "fetch_company_facts", arg |-> "NVDA"]
  /\ co_task[1].sock = 2 /\ co_task[2].sock = 1
  /\ co_task[1].res.ok /\ co_task[2].res.ok
  /\ co_task[1].res.val.leading_zero_cik = "0000320193"
  /\ co_task[2].res.val = JObj(<< <<"cik", JNum(320193)>> >>)

=============================================================================
